---- MODULE Spec2Model ----
(***************************************************************************)
(* State-machine model of the k8sops agent core:                           *)
(*   - AgentSession.send_message, clear_messages, cleanup and the          *)
(*     MemoryManager watermark            (specification SpecTurn)         *)
(*   - AgentSession.initialize / update_settings / cleanup lifecycle       *)
(*                                         (specification SpecLife)        *)
(*   - MCPClient.connect / disconnect      (specification SpecConn)        *)
(*   - SessionStore / FileSessionStore     (specification SpecStore)       *)
(* Text is modelled as a sequence of one-character strings.                *)
(***************************************************************************)
EXTENDS Integers, Sequences, FiniteSets, TLC

VARIABLES
    \* ---- AgentSession conversation state (agent_session.py:97-118) ----
    messages,              \* self.messages: Seq of [role, content]
    tool_calls,            \* self.tool_calls: Seq of [id, status, output]
    agent_ready,           \* self.agent_ready
    is_processing,         \* self.is_processing
    is_streaming,          \* self.is_streaming
    error_message,         \* self.error_message
    title_set,             \* self._title_set
    session_store,         \* self._session_store is not None
    memory_manager,        \* self._memory_manager is not None (and initialized)
    last_extracted_index,  \* MemoryManager._last_extracted_index
    meta,                  \* the session's SessionMetadata record in the store
    thread,                \* the checkpointer's "messages" channel of the thread id
    scans,                 \* per message: extraction batches it was [sent, done] in
    \* ---- observation of the last send_message call ----
    events,                \* the events the call yielded, in order
    raised,                \* TRUE iff an exception escaped the call
    lastCall,              \* [accepted, fault] of the last send_message call;
                           \* fault is "not_ready" for a call the readiness guard rejected
    streamed,              \* agent events consumed so far in the session
    turns,                 \* accepted send_message calls so far
    \* ---- AgentSession components (agent_session.py:95-115) ----
    settings,              \* self.settings: [provider, model_name, temperature, mcp_ssl_verify]
    use_redis,             \* MemorySettings.use_redis
    use_long_term,         \* MemorySettings.use_long_term
    model,                 \* self._model: [id, key], id 0 = None
    model_key,             \* self._model_key
    checkpointer,          \* self._checkpointer: object id, 0 = None
    mcp_client,            \* self._mcp_client: object id, 0 = None
    mcp_connected,         \* self.mcp_connected
    available_tools,       \* self.available_tools: id of the client they came from, 0 = []
    agent,                 \* self._agent: [model, checkpointer, client, context]
    open_connections,      \* ids of the MCPClient objects whose connection is open
    created,               \* objects constructed so far: [models, checkpointers, clients]
    built,                 \* every agent the controller has built
    init,                  \* initialize() calls in flight: caller -> [pc, context, resuming]
    life_last,             \* [op, result, before] of the last completed lifecycle call
    calls,                 \* lifecycle calls started so far
    \* ---- MCPClient (mcp_client/client.py:55-61) ----
    transport,             \* self.transport
    server_url,            \* self.server_url is set
    session,               \* self.session: the task that opened it, 0 = None
    client_tools,          \* self._tools
    connection_task,       \* self._connection_task: task id, 0 = None
    stop_event,            \* self._stop_event: event id, 0 = None
    ready_event,           \* self._ready_event: event id, 0 = None
    stop_set,              \* the stop events that are set
    ready_set,             \* the ready events that are set
    client_error,          \* self._error is not None
    task,                  \* background tasks: id -> [pc, stop]
    waiter,                \* connect() calls: id -> [pc, tools]
    disc,                  \* the disconnect() call in flight: [pc, task]
    connects,              \* connect() calls so far
    called,                \* the last call_tool call: [result, task, connects]
    \* ---- session metadata stores (session/store.py, session/file_store.py) ----
    backend,               \* "redis": SessionStore, "file": FileSessionStore
    redis_data,            \* key sessions:{user}:{id} -> metadata record
    redis_index,           \* sorted set sessions:{user}:index: id -> score, 0 = absent
    file_index,            \* the user's entries of sessions.jsonl, in file order
    file_sessions,         \* ids that have a session file
    clock,                 \* the wall clock: number of readings taken so far
    ops,                   \* store calls in flight: client -> call record
    store_last,            \* [op, n, result, before, alone, call] of the last return
    acked,                 \* id -> fields written by update_session since the record was created
    opcount,               \* store calls started so far
    saver,                 \* one checkpointer: thread id -> its "messages" channel
    supplied,              \* the last agent run: [n, tid, text, msgs given to the model]
    manager_last,          \* the last MemoryManager call of a direct caller
    init_store,            \* the _init_session_store call of a controller on client "A"
    generator              \* the send_message generator a caller iterates step by step:
                           \* [pc, content], pc "terminal" = suspended at line 519

turnVars == <<messages, scans, tool_calls, agent_ready, is_processing, is_streaming,
              error_message, title_set, session_store, memory_manager,
              last_extracted_index, meta, thread, events, raised, lastCall,
              streamed, turns>>

lifeVars == <<settings, use_redis, use_long_term, model, model_key, checkpointer,
              mcp_client, mcp_connected, available_tools, agent,
              open_connections, created, built, init, life_last, calls>>

\* the part of the conversation state that only send_message writes
turnOnly == <<tool_calls, is_streaming, meta, thread, events, raised, lastCall,
              streamed, turns>>

connVars == <<transport, server_url, session, client_tools, connection_task,
              stop_event, ready_event, stop_set, ready_set, client_error, task,
              waiter, disc, connects, called>>

storeVars == <<backend, redis_data, redis_index, file_index, file_sessions,
               clock, ops, store_last, acked, opcount, init_store>>

threadVars == <<saver, supplied>>

\* no send_message generator is suspended
NoGenerator == [pc |-> "none", content |-> <<>>]

vars == <<turnVars, lifeVars, connVars, storeVars, threadVars, manager_last, generator>>

(***************************************************************************)
(* Bounds of the model and program constants.                              *)
(***************************************************************************)
MaxSteps == 4            \* accepted send_message calls plus agent events per session
MaxContextTokens == 2    \* MEMORY_MAX_CONTEXT_TOKENS, scaled down
KeepRecent == 4          \* summarize_and_trim(keep_recent=4)
ExtractionInterval == 5  \* MemoryManager._extraction_interval
TitleLen == 50           \* content.strip()[:50]
PreviewLen == 100        \* assistant_content[:100]

\* int(max_context_tokens * context_threshold) with context_threshold = 0.75
Threshold == (MaxContextTokens * 3) \div 4

(***************************************************************************)
(* Text helpers.                                                           *)
(***************************************************************************)
RECURSIVE LStrip(_)
LStrip(s) == IF s # <<>> /\ Head(s) = " " THEN LStrip(Tail(s)) ELSE s

RECURSIVE RStrip(_)
RStrip(s) ==
    IF s # <<>> /\ s[Len(s)] = " " THEN RStrip(SubSeq(s, 1, Len(s) - 1)) ELSE s

\* str.strip()
Strip(s) == RStrip(LStrip(s))

\* s[:n]
Take(s, n) == SubSeq(s, 1, IF Len(s) < n THEN Len(s) ELSE n)

\* s[-n:] for a list and n >= 0; s[-0:] is s[0:], the whole list
LastN(s, n) ==
    IF n = 0 \/ Len(s) <= n THEN s ELSE SubSeq(s, Len(s) - n + 1, Len(s))

\* s[i:] for a list, 0-based i
From(s, i) == IF i >= Len(s) THEN <<>> ELSE SubSeq(s, i + 1, Len(s))

RECURSIVE SumLen(_)
SumLen(ms) == IF ms = <<>> THEN 0 ELSE Len(Head(ms).content) + SumLen(Tail(ms))

Message(r, c) == [role |-> r, content |-> c]

WelcomeMsg == <<"w", "w", "w", "w">>
ErrText == <<"x">>
SummaryText == <<"s">>

(***************************************************************************)
(* MemoryManager (memory/manager.py).                                      *)
(***************************************************************************)
count_tokens(ms) == SumLen(ms) \div 4

should_summarize(ms) == count_tokens(ms) > Threshold

\* the list returned by summarize_and_trim when the model call succeeds
summarize_and_trim(ms, keep_recent) ==
    IF Len(ms) <= keep_recent THEN ms
    ELSE <<Message("assistant", <<"[">> \o SummaryText \o <<"]">>)>>
             \o LastN(ms, keep_recent)

\* TRUE iff summarize_and_trim calls the model (and the long-term store)
SummarizeCallsModel(ms, keep_recent) == Len(ms) > keep_recent

should_extract(ms, wm) == Len(ms) - wm >= ExtractionInterval

\* a faulty variant of extract_incremental: the watermark is not advanced
ExtractIncrementalKeepsWatermark(ms, wm) == wm

\* watermark after extract_incremental(ms) returned normally
extract_incremental(ms, wm) ==
    IF From(ms, wm) = <<>> THEN wm
    ELSE IF Len(From(ms, wm)) < ExtractionInterval THEN wm
    ELSE Len(ms)

\* a faulty variant of ExtractCallsModel: the test of the interval is missing
ExtractCallsModelAlways(ms, wm) == From(ms, wm) # <<>>

\* TRUE iff extract_incremental reaches _extract_memories_from_messages and
\* so calls the model (lines 236-250)
ExtractCallsModel(ms, wm) ==
    From(ms, wm) # <<>> /\ Len(From(ms, wm)) >= ExtractionInterval

\* watermark after extract_remaining(ms) returned normally
extract_remaining(ms, wm) == IF From(ms, wm) = <<>> THEN wm ELSE Len(ms)

(***************************************************************************)
(* The agent's event stream (external): a finite trace of raw events.      *)
(***************************************************************************)
TextBlock(s) == [btype |-> "text", text |-> s]
OtherBlock == [btype |-> "image", text |-> <<>>]

StreamStr(s) == [event |-> "on_chat_model_stream", kind |-> "str",
                 str |-> s, blocks |-> <<>>, run_id |-> 0]
StreamList(bs) == [event |-> "on_chat_model_stream", kind |-> "list",
                   str |-> <<>>, blocks |-> bs, run_id |-> 0]
ToolStartEv(id) == [event |-> "on_tool_start", kind |-> "none",
                    str |-> <<>>, blocks |-> <<>>, run_id |-> id]
ToolEndEv(id) == [event |-> "on_tool_end", kind |-> "none",
                  str |-> <<>>, blocks |-> <<>>, run_id |-> id]
OtherEv == [event |-> "on_chain_start", kind |-> "none",
            str |-> <<>>, blocks |-> <<>>, run_id |-> 0]

AgentEvents ==
    { StreamStr(<<"a">>), StreamStr(<<>>),
      StreamList(<<TextBlock(<<"b">>), OtherBlock>>),
      StreamList(<<OtherBlock>>),
      ToolStartEv(1), ToolEndEv(1), ToolEndEv(2), OtherEv }

Traces(n) == UNION { [1..k -> AgentEvents] : k \in 0..n }

RECURSIVE JoinBlocks(_)
JoinBlocks(bs) ==
    IF bs = <<>> THEN <<>>
    ELSE (IF Head(bs).btype \in {"str", "text"} THEN Head(bs).text ELSE <<>>)
             \o JoinBlocks(Tail(bs))

\* AgentSession._extract_content applied to a chunk's content
ExtractContent(ev) ==
    IF ev.kind = "str" THEN ev.str
    ELSE IF ev.kind = "list" THEN JoinBlocks(ev.blocks)
    ELSE <<>>

\* chunk.content is truthy
ChunkHasContent(ev) ==
    \/ ev.kind = "str" /\ ev.str # <<>>
    \/ ev.kind = "list" /\ ev.blocks # <<>>

Event(t, c, i, st) == [type |-> t, content |-> c, id |-> i, status |-> st]

\* a faulty variant of AppendToken: the token replaces the text assembled so far
AppendTokenOverwrites(assistant_content, token_content) == token_content

\* assistant_content += token_content
AppendToken(assistant_content, token_content) ==
    assistant_content \o token_content

\* index of the first record of tcs whose id is run_id, 0 if none
RECURSIVE FirstWithId(_, _, _)
FirstWithId(tcs, run_id, i) ==
    IF i > Len(tcs) THEN 0
    ELSE IF tcs[i].id = run_id THEN i
    ELSE FirstWithId(tcs, run_id, i + 1)

\* one iteration of the async-for loop over agent.astream_events
StreamStep(st, ev) ==
    IF ev.event = "on_chat_model_stream" THEN
        IF ChunkHasContent(ev) /\ ExtractContent(ev) # <<>>
        THEN [st EXCEPT
                 !.content = AppendToken(st.content, ExtractContent(ev)),
                 !.events = Append(st.events,
                                   Event("token", ExtractContent(ev), 0, ""))]
        ELSE st
    ELSE IF ev.event = "on_tool_start" THEN
        [st EXCEPT
            !.tool_calls = Append(st.tool_calls,
                [id |-> ev.run_id, status |-> "running", output |-> ""]),
            !.events = Append(st.events,
                              Event("tool_start", <<>>, ev.run_id, "running"))]
    ELSE IF ev.event = "on_tool_end" THEN
        LET i == FirstWithId(st.tool_calls, ev.run_id, 1) IN
        IF i = 0 THEN st
        ELSE [st EXCEPT
                 !.tool_calls[i].status = "complete",
                 !.tool_calls[i].output = "out",
                 !.events = Append(st.events,
                                   Event("tool_end", <<>>, ev.run_id, "complete"))]
    ELSE st

RECURSIVE RunStream(_, _)
RunStream(st, trace) ==
    IF trace = <<>> THEN st
    ELSE RunStream(StreamStep(st, Head(trace)), Tail(trace))

(***************************************************************************)
(* AgentSession.send_message (agent_session.py:429-541), one whole call.   *)
(* Inputs: the text, the raw events the agent's stream delivers, and which *)
(* external call (if any) raises during the call:                          *)
(*   "summarize" the model call of summarize_and_trim,                     *)
(*   "title"     the metadata write of the title,                          *)
(*   "stream"    the agent's event stream, after delivering the trace,     *)
(*   "update"    the metadata write after the turn,                        *)
(*   "extract"   the model call of the incremental extraction.             *)
(***************************************************************************)
Faults == {"none", "summarize", "title", "stream", "update", "extract"}

UserTexts == { <<>>, <<" ">>, <<" ", "q">> }

\* title = content.strip()[:50], plus "..." if longer
Title(text) ==
    IF Len(text) > TitleLen THEN Take(text, TitleLen) \o <<".", ".", ".">>
    ELSE Take(text, TitleLen)

\* _check_context_limit: TRUE iff summarization "occurred"
CheckContextLimit == memory_manager /\ should_summarize(messages)

AfterSummary ==
    IF CheckContextLimit THEN summarize_and_trim(messages, KeepRecent) ELSE messages

SystemEvents ==
    IF CheckContextLimit THEN <<Event("system", <<"S">>, 0, "")>> ELSE <<>>

WithUser(text) == Append(AfterSummary, Message("user", text))

EventsToUser(text) == Append(SystemEvents, Event("user_message", text, 0, ""))

Streamed(text, trace) ==
    RunStream([content |-> <<>>, tool_calls |-> <<>>, events |-> EventsToUser(text)],
              trace)

WithAssistant(text, trace) ==
    Append(WithUser(text), Message("assistant", Streamed(text, trace).content))

\* a message of the thread as the checkpointer holds it: a HumanMessage with
\* str content, an AIMessage with the content blocks of its chunks, a
\* ToolMessage
ThreadMessage(t, text, bs) == [type |-> t, str |-> text, blocks |-> bs]

\* the content blocks that a streamed chunk adds to the AIMessage of its
\* model run
ChunkBlocks(ev) ==
    IF ev.kind = "list" THEN ev.blocks
    ELSE IF ev.str # <<>> THEN <<TextBlock(ev.str)>>
    ELSE <<>>

\* the graph run behind astream_events: the chunks of one model run form one
\* AIMessage, a tool call ends the model run, a tool result is a ToolMessage
GraphStep(g, ev) ==
    IF ev.event = "on_chat_model_stream"
    THEN [g EXCEPT !.run = @ \o ChunkBlocks(ev)]
    ELSE IF ev.event = "on_tool_start"
    THEN [msgs |-> Append(g.msgs, ThreadMessage("ai", <<>>, g.run)), run |-> <<>>]
    ELSE IF ev.event = "on_tool_end"
    THEN [g EXCEPT !.msgs = Append(@, ThreadMessage("tool", <<"o">>, <<>>))]
    ELSE g

RECURSIVE GraphRun(_, _)
GraphRun(g, trace) ==
    IF trace = <<>> THEN g
    ELSE GraphRun(GraphStep(g, Head(trace)), Tail(trace))

\* the graph's input under a thread whose channel holds stored: the
\* thread's messages, then the new HumanMessage
GraphInputOf(stored, text) ==
    [msgs |-> Append(stored, ThreadMessage("human", text, <<>>)), run |-> <<>>]

GraphInput(text) == GraphInputOf(thread, text)

\* the thread after a run that ended: the last model run's AIMessage is
\* written when the agent node returns
Invoked(text, trace) ==
    LET g == GraphRun(GraphInput(text), trace) IN
    Append(g.msgs, ThreadMessage("ai", <<>>, g.run))

\* the thread after a run whose stream raised: the step in progress is not
\* written
Interrupted(text, trace) == GraphRun(GraphInput(text), trace).msgs

\* _restore_messages_from_checkpointer, lines 309-310: "ai" becomes
\* "assistant", "human" becomes "user"
RestoredRole(t) ==
    IF t = "ai" THEN "assistant" ELSE IF t \in {"human", "user"} THEN "user" ELSE t

\* lines 316-320: list content is flattened to the concatenation of
\* block.get("text", "")
RECURSIVE BlockTexts(_)
BlockTexts(bs) ==
    IF bs = <<>> THEN <<>> ELSE Head(bs).text \o BlockTexts(Tail(bs))

RestoredContent(m) == IF m.type = "ai" THEN BlockTexts(m.blocks) ELSE m.str

\* lines 306-322: tool and system messages are skipped, and so are messages
\* whose content is empty
RECURSIVE Restore(_)
Restore(stored) ==
    IF stored = <<>> THEN <<>>
    ELSE (IF RestoredRole(Head(stored).type) \in {"user", "assistant"}
             /\ RestoredContent(Head(stored)) # <<>>
          THEN <<Message(RestoredRole(Head(stored).type), RestoredContent(Head(stored)))>>
          ELSE <<>>) \o Restore(Tail(stored))

\* a message that no extraction batch has held yet
NotScanned == [sent |-> 0, done |-> 0]

Unscanned(ms) == IF ms = <<>> THEN <<>> ELSE [i \in DOMAIN ms |-> NotScanned]

\* _extract_memories_from_messages(messages[wm:]): the batch is sent to the
\* model; ok: the model call and every store_memory call returned
Scan(sc, wm, ok) ==
    IF sc = <<>> THEN <<>>
    ELSE [i \in DOMAIN sc |->
             IF i > wm
             THEN [sent |-> sc[i].sent + 1,
                   done |-> sc[i].done + (IF ok THEN 1 ELSE 0)]
             ELSE sc[i]]

\* the scan records of AfterSummary: the summary message is new, the kept
\* tail keeps its records
ScansAfterSummary ==
    IF CheckContextLimit /\ Len(messages) > KeepRecent
    THEN <<NotScanned>> \o LastN(scans, KeepRecent)
    ELSE scans

ErrorMessage == Message("assistant", <<"E">> \o ErrText)

ErrorEvent == Event("error", ErrText, 0, "")

FaultApplies(text, trace, fault) ==
    CASE fault = "none" -> TRUE
      [] fault = "summarize" ->
            CheckContextLimit /\ SummarizeCallsModel(messages, KeepRecent) /\ trace = <<>>
      [] fault = "title" -> ~title_set /\ session_store /\ trace = <<>>
      [] fault = "stream" -> TRUE
      [] fault = "update" -> session_store
      [] fault = "extract" ->
            memory_manager
            /\ should_extract(WithAssistant(text, trace), last_extracted_index)

\* the guards of lines 444-449: blank text, controller not ready
SendRejectedBlank(content) ==
    /\ Strip(content) = <<>>
    /\ events' = <<>>
    /\ raised' = FALSE
    /\ lastCall' = [accepted |-> FALSE, fault |-> "none"]
    /\ UNCHANGED <<messages, scans, tool_calls, agent_ready, is_processing, is_streaming,
                   error_message, title_set, session_store, memory_manager,
                   last_extracted_index, meta, thread, streamed, turns>>

\* a faulty variant of SendRejectedNotReady: the readiness guard stands after
\* the append of the user message, so a rejected call records the message
SendRejectedNotReadyRecords(content) ==
    /\ Strip(content) # <<>>
    /\ ~agent_ready
    /\ Len(messages) < MaxSteps
    /\ messages' = Append(messages, Message("user", Strip(content)))
    /\ scans' = Append(scans, NotScanned)
    /\ events' = <<Event("error", <<"n">>, 0, "")>>
    /\ raised' = FALSE
    /\ lastCall' = [accepted |-> FALSE, fault |-> "not_ready"]
    /\ UNCHANGED <<tool_calls, agent_ready, is_processing, is_streaming,
                   error_message, title_set, session_store, memory_manager,
                   last_extracted_index, meta, thread, streamed, turns>>

SendRejectedNotReady(content) ==
    /\ Strip(content) # <<>>
    /\ ~agent_ready
    /\ events' = <<Event("error", <<"n">>, 0, "")>>
    /\ raised' = FALSE
    /\ lastCall' = [accepted |-> FALSE, fault |-> "not_ready"]
    /\ UNCHANGED <<messages, scans, tool_calls, agent_ready, is_processing, is_streaming,
                   error_message, title_set, session_store, memory_manager,
                   last_extracted_index, meta, thread, streamed, turns>>

\* lines 451-453 raise: the exception leaves send_message before the try block
SendSummarizeRaises(text) ==
    /\ events' = <<>>
    /\ raised' = TRUE
    /\ UNCHANGED <<messages, scans, tool_calls, is_processing, is_streaming, error_message,
                   title_set, last_extracted_index, meta, thread>>

\* lines 460-466 raise: the user message is appended, then the exception leaves
SendTitleRaises(text) ==
    /\ messages' = WithUser(text)
    /\ scans' = Append(ScansAfterSummary, NotScanned)
    /\ events' = EventsToUser(text)
    /\ raised' = TRUE
    /\ UNCHANGED <<tool_calls, is_processing, is_streaming, error_message,
                   title_set, last_extracted_index, meta, thread>>

TitleWritten(text) ==
    IF ~title_set /\ session_store THEN [meta EXCEPT !.title = Title(text)] ELSE meta

\* lines 475-515 raise: except block (532-537), finally block (539-541)
SendStreamRaises(text, trace) ==
    LET st == Streamed(text, trace) IN
    /\ messages' = Append(WithUser(text), ErrorMessage)
    /\ scans' = ScansAfterSummary \o <<NotScanned, NotScanned>>
    /\ events' = Append(st.events, ErrorEvent)
    /\ tool_calls' = st.tool_calls
    /\ error_message' = ErrText
    /\ thread' = Interrupted(text, trace)
    /\ meta' = TitleWritten(text)
    /\ title_set' = (title_set \/ session_store)
    /\ raised' = FALSE
    /\ is_streaming' = FALSE
    /\ is_processing' = FALSE
    /\ UNCHANGED last_extracted_index

\* lines 522-527 raise: the assistant message is in, then the except block runs
SendUpdateRaises(text, trace) ==
    LET st == Streamed(text, trace)
        ms == Append(WithUser(text), Message("assistant", st.content))
    IN
    /\ messages' = Append(ms, ErrorMessage)
    /\ scans' = ScansAfterSummary \o <<NotScanned, NotScanned, NotScanned>>
    /\ events' = Append(Append(st.events,
                     Event("assistant_message", st.content, 0, "")),
                     ErrorEvent)
    /\ tool_calls' = st.tool_calls
    /\ error_message' = ErrText
    /\ thread' = Invoked(text, trace)
    /\ meta' = TitleWritten(text)
    /\ title_set' = (title_set \/ session_store)
    /\ raised' = FALSE
    /\ is_streaming' = FALSE
    /\ is_processing' = FALSE
    /\ UNCHANGED last_extracted_index

\* the turn runs to its end; a failing extraction is caught in
\* _maybe_extract_memories (lines 395-401)
SendCompletes(text, trace, fault) ==
    LET st == Streamed(text, trace)
        ms == Append(WithUser(text), Message("assistant", st.content))
        sc == ScansAfterSummary \o <<NotScanned, NotScanned>>
        extracts == memory_manager /\ should_extract(ms, last_extracted_index)
    IN
    /\ messages' = ms
    /\ scans' = IF extracts THEN Scan(sc, last_extracted_index, fault # "extract")
                 ELSE sc
    /\ events' = Append(st.events, Event("assistant_message", st.content, 0, ""))
    /\ tool_calls' = st.tool_calls
    /\ thread' = Invoked(text, trace)
    /\ meta' = IF session_store
               THEN [TitleWritten(text) EXCEPT
                        !.preview = Take(st.content, PreviewLen),
                        !.message_count = Len(ms)]
               ELSE meta
    /\ title_set' = (title_set \/ session_store)
    /\ last_extracted_index' =
           IF extracts /\ fault # "extract"
           THEN extract_incremental(ms, last_extracted_index)
           ELSE last_extracted_index
    /\ raised' = FALSE
    /\ is_streaming' = FALSE
    /\ is_processing' = FALSE
    /\ UNCHANGED error_message

SendAccepted(content, trace, fault) ==
    LET text == Strip(content) IN
    /\ text # <<>>
    /\ agent_ready
    /\ turns + streamed + 1 + Len(trace) <= MaxSteps
    /\ turns' = turns + 1
    /\ FaultApplies(text, trace, fault)
    /\ streamed' = streamed + Len(trace)
    /\ lastCall' = [accepted |-> TRUE, fault |-> fault]
    /\ CASE fault = "summarize" -> SendSummarizeRaises(text)
         [] fault = "title" -> SendTitleRaises(text)
         [] fault = "stream" -> SendStreamRaises(text, trace)
         [] fault = "update" -> SendUpdateRaises(text, trace)
         [] OTHER -> SendCompletes(text, trace, fault)
    /\ UNCHANGED <<agent_ready, session_store, memory_manager>>

\* send_message reads its argument through content.strip() only (lines 444,
\* 456, 462, 463, 479): arguments with the same stripped text make the same call
send_message ==
    \E content \in { Strip(given) : given \in UserTexts } :
        \/ SendRejectedBlank(content) /\ UNCHANGED <<lifeVars, connVars, storeVars, threadVars, manager_last, generator>>
        \/ SendRejectedNotReady(content)
               /\ UNCHANGED <<lifeVars, connVars, storeVars, threadVars, manager_last, generator>>
        \/ \E trace \in Traces(MaxSteps - turns - streamed - 1), fault \in Faults :
               SendAccepted(content, trace, fault)
                   /\ UNCHANGED <<lifeVars, connVars, storeVars, threadVars, manager_last, generator>>

\* AgentSession.clear_messages (agent_session.py:557-561)
clear_messages ==
    /\ messages' = <<>>
    /\ scans' = <<>>
    /\ tool_calls' = <<>>
    /\ error_message' = <<>>
    /\ events' = <<>>
    /\ raised' = FALSE
    /\ lastCall' = [accepted |-> FALSE, fault |-> "none"]
    /\ UNCHANGED <<agent_ready, is_processing, is_streaming, title_set,
                   session_store, memory_manager, last_extracted_index, meta,
                   thread, streamed, turns>>
    /\ UNCHANGED <<lifeVars, connVars, storeVars, threadVars, manager_last, generator>>

(***************************************************************************)
(* A MemoryManager that is initialized, called directly as its unit tests  *)
(* do: the caller keeps a message list, appends to it, and calls           *)
(* summarize_and_trim and extract_incremental on it.                       *)
(***************************************************************************)
MaxMessages == 6   \* messages in the caller's list
MaxKeep == 2       \* keep_recent arguments: 0..MaxKeep

NoManagerCall ==
    [op |-> "none", result |-> "ok", keep_recent |-> 0, input |-> <<>>,
     output |-> <<>>, summary |-> <<>>, model_calls |-> 0, stored |-> 0,
     wm |-> 0, second |-> FALSE, first |-> "none"]

\* the caller appends a message to its list
add_message(role, content) ==
    /\ Len(messages) < MaxMessages
    /\ messages' = Append(messages, Message(role, content))
    /\ manager_last' = NoManagerCall
    /\ UNCHANGED last_extracted_index

\* summarize_and_trim(messages, keep_recent), lines 132-184; fails: the
\* model call or the memory store raises.  The caller goes on with the
\* returned list.
summarize_call(keep_recent, fails) ==
    LET calls_model == SummarizeCallsModel(messages, keep_recent) IN
    /\ fails => calls_model
    /\ Len(summarize_and_trim(messages, keep_recent)) <= MaxMessages
    /\ manager_last' =
           [NoManagerCall EXCEPT
               !.op = "summarize_and_trim",
               !.result = IF fails THEN "raised" ELSE "ok",
               !.keep_recent = keep_recent,
               !.input = messages,
               !.output = IF fails THEN <<>>
                          ELSE summarize_and_trim(messages, keep_recent),
               !.summary = IF calls_model /\ ~fails THEN SummaryText ELSE <<>>,
               !.model_calls = IF calls_model THEN 1 ELSE 0,
               !.stored = IF calls_model /\ ~fails THEN 1 ELSE 0]
    /\ messages' = IF fails THEN messages
                   ELSE summarize_and_trim(messages, keep_recent)
    /\ UNCHANGED last_extracted_index

\* extract_incremental(messages), lines 220-255; memories: how many memories
\* the model finds; fails: the model call or the memory store raises
extract_call(memories, fails) ==
    LET calls_model == ExtractCallsModel(messages, last_extracted_index) IN
    /\ (fails \/ memories > 0) => calls_model
    /\ manager_last' =
           [NoManagerCall EXCEPT
               !.op = "extract_incremental",
               !.result = IF fails THEN "raised" ELSE "ok",
               !.input = messages,
               !.model_calls = IF calls_model THEN 1 ELSE 0,
               !.stored = IF fails THEN 0 ELSE memories,
               !.wm = last_extracted_index,
               !.second = manager_last.op = "extract_incremental",
               !.first = IF manager_last.op = "extract_incremental"
                         THEN manager_last.result ELSE "none"]
    /\ last_extracted_index' =
           IF fails THEN last_extracted_index
           ELSE extract_incremental(messages, last_extracted_index)
    /\ UNCHANGED messages

\* the other variables of the controller, which a direct caller of the
\* manager does not have
managerFrame ==
    <<scans, tool_calls, agent_ready, is_processing, is_streaming, error_message,
      title_set, session_store, memory_manager, meta, thread, events, raised,
      lastCall, streamed, turns, lifeVars, connVars, storeVars, threadVars,
      generator>>

memory_manager_calls ==
    \/ \E role \in {"user", "assistant"} :
           add_message(role, <<"m">>) /\ UNCHANGED managerFrame
    \/ \E keep_recent \in 0..MaxKeep, fails \in BOOLEAN :
           summarize_call(keep_recent, fails) /\ UNCHANGED managerFrame
    \/ \E memories \in 0..1, fails \in BOOLEAN :
           extract_call(memories, fails) /\ UNCHANGED managerFrame

(***************************************************************************)
(* One agent of agent/factory.py, and so one checkpointer, run under       *)
(* several thread ids: by the controllers of several sessions              *)
(* (agent_session.py:475-482, thread id = session id) or by a caller of    *)
(* the agent itself (tests/integration/test_agent.py:608-663).  The        *)
(* checkpointer keeps one "messages" channel per thread id it is given.    *)
(***************************************************************************)
ThreadIds == {"a", "b"}

\* what the user of each thread says
ThreadTexts == [a |-> {<<"s">>, <<"t">>}, b |-> {<<"q">>}]

\* the agent's events in these runs
ThreadTraces ==
    { <<>>, <<StreamStr(<<"a">>)>>, <<ToolStartEv(1), ToolEndEv(1)>>,
      <<StreamStr(<<"a">>), ToolStartEv(1)>> }

\* a faulty variant of ThreadConfig: every run is made under one thread id
ThreadConfigShared(tid) == "a"

\* config = {"configurable": {"thread_id": self._thread_id}} (line 476): the
\* thread id under which the checkpointer is read and written
ThreadConfig(tid) == tid

\* agent.astream_events / agent.ainvoke with one user message under thread
\* id tid: the graph reads the channel of the configured thread, the model
\* is given it with the new message, and the run's messages are written to
\* the same channel
thread_turn(tid, text, trace) ==
    LET key == ThreadConfig(tid)
        g == GraphRun(GraphInputOf(saver[key], text), trace)
    IN
    /\ supplied.n + 1 + Len(trace) <= MaxSteps
    /\ supplied' = [n |-> supplied.n + 1 + Len(trace), tid |-> tid, text |-> text,
                    msgs |-> GraphInputOf(saver[key], text).msgs]
    /\ saver' = [saver EXCEPT ![key] = Append(g.msgs, ThreadMessage("ai", <<>>, g.run))]

ThreadsIdle ==
    /\ saver = [tid \in ThreadIds |-> <<>>]
    /\ supplied = [n |-> 0, tid |-> "a", text |-> <<>>, msgs |-> <<>>]

(***************************************************************************)
(* AgentSession lifecycle (agent_session.py:120-286, 403-427, 563-592).    *)
(* initialize() is split at its suspension points: the MCP connect, the    *)
(* session store calls, the memory manager calls, the Redis checkpointer's *)
(* asetup() and the checkpoint read of a resumed session.  Objects are     *)
(* identified by the order in which the controller constructed them.       *)
(***************************************************************************)
MaxCalls == 3     \* initialize / update_settings / cleanup calls per controller

\* the callers whose initialize() calls may be in flight together
Callers == {"c1", "c2"}

ModelNames == {"m1", "m2"}

\* the temperatures that callers pass: the floats 0.0 and 0.7 and the int 0,
\* each as its number of tenths and its Python type
Float(tenths) == [tenths |-> tenths, float |-> TRUE]

Temperatures == {Float(0), Float(7), [tenths |-> 0, float |-> FALSE]}

DefaultSettings ==
    [provider |-> "anthropic", model_name |-> "m1", temperature |-> Float(0),
     mcp_ssl_verify |-> "false"]

\* the "{temperature}" of an f-string, as the digits around the point: a
\* float is written with its fraction ("0.0"), an int without ("0")
TemperatureText(t) ==
    IF t.float THEN <<t.tenths \div 10, t.tenths % 10>> ELSE <<t.tenths \div 10>>

\* SessionSettings.model_key: f"{provider}/{model_name}/{temperature}"
ModelKey(s) == <<s.provider, s.model_name, TemperatureText(s.temperature)>>

NoModel == [id |-> 0, key |-> <<>>]

NoAgent == [model |-> NoModel, checkpointer |-> 0, client |-> 0, context |-> FALSE]

IdleCall == [pc |-> "idle", client |-> 0, context |-> FALSE, resuming |-> FALSE]

\* self._model after _create_model() ran under settings s
CreateModel(s) ==
    IF model.id # 0 THEN model
    ELSE [id |-> created.models + 1, key |-> ModelKey(s)]

\* the construction counters after _create_model()
CountModel == IF model.id # 0 THEN created ELSE [created EXCEPT !.models = @ + 1]

\* _set_welcome_message
Welcome(memories) ==
    <<Message("assistant", IF memories THEN WelcomeMsg \o <<"m">> ELSE WelcomeMsg)>>

\* the history _restore_messages_from_checkpointer rebuilds
RestoredMessages == <<Message("user", <<"q">>), Message("assistant", <<"a">>)>>

\* a faulty variant of InitRaises: the except block leaves agent_ready as
\* it is
InitRaisesKeepsReady(p) ==
    /\ error_message' = ErrText
    /\ mcp_connected' = FALSE
    /\ UNCHANGED agent_ready
    /\ is_processing' = FALSE
    /\ init' = [init EXCEPT ![p] = IdleCall]
    /\ life_last' = [op |-> "initialize", result |-> "raised", before |-> agent]

\* except and finally blocks of initialize (lines 156-164)
InitRaises(p) ==
    /\ error_message' = ErrText
    /\ mcp_connected' = FALSE
    /\ agent_ready' = FALSE
    /\ is_processing' = FALSE
    /\ init' = [init EXCEPT ![p] = IdleCall]
    /\ life_last' = [op |-> "initialize", result |-> "raised", before |-> agent]

\* lines 253-257 of _create_agent, then lines 141-154 and 164 of initialize;
\* mdl, cnt and ck are the model, the counters and the checkpointer at hand
BuildAgent(p, mdl, cnt, ck, conn, memories, resuming) ==
    /\ model' = mdl
    /\ created' = cnt
    /\ checkpointer' = ck
    /\ IF mcp_client = 0
       THEN \* create_agent_with_mcp(model, None, ...) raises
            /\ InitRaises(p)
            /\ UNCHANGED <<agent, built, model_key, messages, scans>>
       ELSE /\ agent' = [model |-> mdl, checkpointer |-> ck, client |-> mcp_client,
                         context |-> memories]
            /\ built' = built \cup {agent'}
            /\ model_key' = ModelKey(settings)
            /\ agent_ready' = TRUE
            /\ mcp_connected' = conn
            /\ UNCHANGED error_message
            /\ IF resuming
               THEN /\ init' = [init EXCEPT ![p].pc = "restore",
                                            ![p].context = memories,
                                            ![p].resuming = resuming]
                    /\ UNCHANGED <<messages, scans, is_processing, life_last>>
               ELSE /\ messages' = Welcome(memories)
                    /\ scans' = Unscanned(Welcome(memories))
                    /\ is_processing' = FALSE
                    /\ init' = [init EXCEPT ![p] = IdleCall]
                    /\ life_last' = [op |-> "initialize", result |-> "ok",
                                     before |-> agent]

\* _create_agent from its first line (247) up to the first suspension;
\* modelFails: create_model raises
CreateAgent(p, conn, memories, resuming, modelFails) ==
    IF modelFails
    THEN /\ InitRaises(p)
         /\ UNCHANGED <<model, created, checkpointer, agent, built, model_key,
                        messages, scans>>
    ELSE IF checkpointer = 0 /\ use_redis
    THEN \* await saver.asetup() suspends the call
         /\ model' = CreateModel(settings)
         /\ created' = CountModel
         /\ init' = [init EXCEPT ![p].pc = "checkpointer",
                                 ![p].context = memories,
                                 ![p].resuming = resuming]
         /\ mcp_connected' = conn
         /\ UNCHANGED <<checkpointer, agent, built, model_key, agent_ready,
                        messages, scans, is_processing, error_message, life_last>>
    ELSE BuildAgent(p, CreateModel(settings),
                    IF checkpointer = 0
                    THEN [CountModel EXCEPT !.checkpointers = @ + 1]
                    ELSE CountModel,
                    IF checkpointer = 0 THEN created.checkpointers + 1
                    ELSE checkpointer,
                    conn, memories, resuming)

\* the variables that neither CreateAgent nor InitRaises writes
lifeFrame == <<turnOnly, settings, use_redis, use_long_term, mcp_client, calls>>

\* initialize, lines 122-129 and 177-183: up to the await of connect()
InitializeCall(p) ==
    /\ init[p].pc = "idle"
    /\ calls < MaxCalls
    /\ calls' = calls + 1
    /\ IF agent_ready
       THEN /\ life_last' = [op |-> "initialize", result |-> "noop",
                             before |-> agent]
            /\ UNCHANGED <<is_processing, error_message, mcp_client, created, init>>
       ELSE /\ is_processing' = TRUE
            /\ error_message' = <<>>
            /\ mcp_client' = created.clients + 1
            /\ created' = [created EXCEPT !.clients = @ + 1]
            /\ init' = [init EXCEPT ![p] = [IdleCall EXCEPT
                            !.pc = "connect", !.client = created.clients + 1]]
            /\ UNCHANGED life_last
    /\ UNCHANGED <<turnOnly, messages, scans, agent_ready, title_set, session_store,
                   memory_manager, last_extracted_index, settings, use_redis,
                   use_long_term, model, model_key, checkpointer, mcp_connected,
                   available_tools, agent, open_connections, built>>

\* connect() returned the tools (lines 183-185); without Redis nothing
\* suspends before the end of initialize, with Redis the call suspends in
\* _init_session_store (lines 204-210)
InitConnectOk(p, modelFails) ==
    /\ init[p].pc = "connect"
    /\ modelFails => (~use_redis /\ model.id = 0)
    /\ open_connections' = open_connections \cup {init[p].client}
    /\ available_tools' = init[p].client
    /\ IF use_redis
       THEN /\ session_store' = TRUE
            /\ mcp_connected' = TRUE
            /\ init' = [init EXCEPT ![p].pc = "store"]
            /\ UNCHANGED <<model, created, checkpointer, agent, built, model_key,
                           agent_ready, messages, scans, is_processing, error_message,
                           life_last>>
       ELSE /\ CreateAgent(p, TRUE, FALSE, FALSE, modelFails)
            /\ UNCHANGED session_store
    /\ UNCHANGED <<lifeFrame, title_set, memory_manager, last_extracted_index>>

\* connect() raised: the handshake failed, no connection is open
InitConnectFails(p) ==
    /\ init[p].pc = "connect"
    /\ InitRaises(p)
    /\ UNCHANGED <<lifeFrame, messages, scans, title_set, session_store, memory_manager,
                   last_extracted_index, model, model_key, checkpointer,
                   available_tools, agent, open_connections, created, built>>

\* _init_session_store returned (resuming: the session existed in the store);
\* then _init_memory_manager up to the await of MemoryManager.initialize, or,
\* without long-term memory, _create_agent
InitStoreOk(p, resuming, modelFails) ==
    /\ init[p].pc = "store"
    /\ modelFails => model.id = 0
    /\ IF use_long_term /\ ~modelFails
       THEN /\ model' = CreateModel(settings)
            /\ created' = CountModel
            /\ memory_manager' = TRUE
            /\ last_extracted_index' = 0
            /\ init' = [init EXCEPT ![p].pc = "memory", ![p].resuming = resuming]
            /\ UNCHANGED <<checkpointer, agent, built, model_key, agent_ready,
                           mcp_connected, messages, scans, is_processing, error_message,
                           life_last>>
       ELSE /\ CreateAgent(p, mcp_connected, FALSE, resuming, modelFails)
            /\ UNCHANGED <<memory_manager, last_extracted_index>>
    /\ UNCHANGED <<lifeFrame, title_set, session_store, available_tools,
                   open_connections>>

\* a session store call raised (Redis unreachable)
InitStoreFails(p) ==
    /\ init[p].pc = "store"
    /\ InitRaises(p)
    /\ UNCHANGED <<lifeFrame, messages, scans, title_set, session_store, memory_manager,
                   last_extracted_index, model, model_key, checkpointer,
                   available_tools, agent, open_connections, created, built>>

\* MemoryManager.initialize and _get_memory_context returned (memories: some
\* were retrieved), then _create_agent
InitMemoryOk(p, memories) ==
    /\ init[p].pc = "memory"
    /\ memories => memory_manager
    /\ CreateAgent(p, mcp_connected, memories, init[p].resuming, FALSE)
    /\ UNCHANGED <<lifeFrame, title_set, session_store, memory_manager,
                   last_extracted_index, available_tools, open_connections>>

\* MemoryManager.initialize raised
InitMemoryFails(p) ==
    /\ init[p].pc = "memory"
    /\ InitRaises(p)
    /\ UNCHANGED <<lifeFrame, messages, scans, title_set, session_store, memory_manager,
                   last_extracted_index, model, model_key, checkpointer,
                   available_tools, agent, open_connections, created, built>>

\* asetup() returned: lines 251-257
InitCheckpointerOk(p) ==
    /\ init[p].pc = "checkpointer"
    /\ BuildAgent(p, model, [created EXCEPT !.checkpointers = @ + 1],
                  created.checkpointers + 1, mcp_connected, init[p].context,
                  init[p].resuming)
    /\ UNCHANGED <<lifeFrame, title_set, session_store, memory_manager,
                   last_extracted_index, available_tools, open_connections>>

\* asetup() raised
InitCheckpointerFails(p) ==
    /\ init[p].pc = "checkpointer"
    /\ InitRaises(p)
    /\ UNCHANGED <<lifeFrame, messages, scans, title_set, session_store, memory_manager,
                   last_extracted_index, model, model_key, checkpointer,
                   available_tools, agent, open_connections, created, built>>

\* _restore_messages_from_checkpointer returned (lines 141-150, 164)
InitRestore(p, restored) ==
    /\ init[p].pc = "restore"
    /\ restored => checkpointer # 0
    /\ messages' = IF restored THEN RestoredMessages ELSE Welcome(init[p].context)
    /\ scans' = Unscanned(IF restored THEN RestoredMessages ELSE Welcome(init[p].context))
    /\ title_set' = (title_set \/ restored)
    /\ is_processing' = FALSE
    /\ init' = [init EXCEPT ![p] = IdleCall]
    /\ life_last' = [op |-> "initialize", result |-> "ok", before |-> agent]
    /\ UNCHANGED <<lifeFrame, agent_ready, error_message, session_store,
                   memory_manager, last_extracted_index, model, model_key,
                   checkpointer, mcp_connected, available_tools, agent,
                   open_connections, created, built>>

initialize ==
    \E p \in Callers :
        \/ InitializeCall(p) /\ UNCHANGED <<connVars, storeVars, threadVars, manager_last, generator>>
        \/ \E modelFails \in BOOLEAN :
               InitConnectOk(p, modelFails) /\ UNCHANGED <<connVars, storeVars, threadVars, manager_last, generator>>
        \/ InitConnectFails(p) /\ UNCHANGED <<connVars, storeVars, threadVars, manager_last, generator>>
        \/ \E resuming, modelFails \in BOOLEAN :
               InitStoreOk(p, resuming, modelFails)
                   /\ UNCHANGED <<connVars, storeVars, threadVars, manager_last, generator>>
        \/ InitStoreFails(p) /\ UNCHANGED <<connVars, storeVars, threadVars, manager_last, generator>>
        \/ \E memories \in BOOLEAN :
               InitMemoryOk(p, memories) /\ UNCHANGED <<connVars, storeVars, threadVars, manager_last, generator>>
        \/ InitMemoryFails(p) /\ UNCHANGED <<connVars, storeVars, threadVars, manager_last, generator>>
        \/ InitCheckpointerOk(p) /\ UNCHANGED <<connVars, storeVars, threadVars, manager_last, generator>>
        \/ InitCheckpointerFails(p) /\ UNCHANGED <<connVars, storeVars, threadVars, manager_last, generator>>
        \/ \E restored \in BOOLEAN :
               InitRestore(p, restored) /\ UNCHANGED <<connVars, storeVars, threadVars, manager_last, generator>>

\* the keyword arguments of an update_settings call
Changes ==
    {[field |-> "model_name", value |-> m] : m \in ModelNames}
        \cup {[field |-> "temperature", value |-> t] : t \in Temperatures}
        \cup {[field |-> "mcp_ssl_verify", value |-> "true"],
              [field |-> "thread", value |-> "t"]}

\* lines 415-417: setattr for the keys the settings object has
ApplyChange(s, ch) ==
    IF ch.field \in DOMAIN s THEN [s EXCEPT ![ch.field] = ch.value] ELSE s

\* AgentSession.update_settings (agent_session.py:403-427); the rebuild does
\* not suspend: create_agent_with_mcp has no await and the checkpointer exists
update_settings(ch) ==
    LET new == ApplyChange(settings, ch)
        mdl == CreateModel(new)
        ck == IF checkpointer = 0 THEN created.checkpointers + 1 ELSE checkpointer
        rebuild == ModelKey(settings) # ModelKey(new) /\ agent_ready
    IN
    /\ calls < MaxCalls
    /\ calls' = calls + 1
    /\ settings' = new
    /\ IF rebuild /\ mcp_client # 0
       THEN /\ model' = mdl
            /\ created' = IF checkpointer = 0
                          THEN [CountModel EXCEPT !.checkpointers = @ + 1]
                          ELSE CountModel
            /\ checkpointer' = ck
            /\ agent' = [model |-> mdl, checkpointer |-> ck, client |-> mcp_client,
                         context |-> FALSE]
            /\ built' = built \cup {agent'}
            /\ model_key' = ModelKey(new)
            /\ agent_ready' = TRUE
            /\ life_last' = [op |-> "update_settings", result |-> "rebuilt",
                             before |-> agent]
       ELSE /\ life_last' = [op |-> "update_settings",
                             result |-> IF rebuild THEN "raised" ELSE "kept",
                             before |-> agent]
            /\ UNCHANGED <<model, created, checkpointer, agent, built, model_key,
                           agent_ready>>
    /\ UNCHANGED <<turnOnly, messages, scans, is_processing, error_message, title_set,
                   session_store, memory_manager, last_extracted_index,
                   use_redis, use_long_term, mcp_client, mcp_connected,
                   available_tools, open_connections, init>>
    /\ UNCHANGED <<connVars, storeVars, threadVars, manager_last, generator>>

\* a faulty variant of Caught: the exception of a step leaves cleanup
Uncaught(fails) == fails

\* the try / except Exception around each step of cleanup (lines 567-585):
\* whether the exception of a failing step leaves cleanup
Caught(fails) == FALSE

\* AgentSession.cleanup (agent_session.py:563-592): the teardown extraction,
\* the disconnect of the current client and the close of the store, each
\* in its own try, then the components are dropped
cleanup ==
    /\ calls < MaxCalls
    /\ calls' = calls + 1
    /\ \E extractionFails \in BOOLEAN,
          disconnectLeaves \in { Caught(fails) : fails \in { f \in BOOLEAN : f => mcp_client # 0 } },
          closeLeaves \in { Caught(fails) : fails \in { f \in BOOLEAN : f => session_store } } :
           LET flush == memory_manager /\ messages # <<>>
               left1 == flush /\ Caught(extractionFails)
               disconnects == ~left1 /\ mcp_client # 0
               left2 == disconnects /\ disconnectLeaves
               closes == ~left1 /\ ~left2 /\ session_store
               left3 == closes /\ closeLeaves
               left == left1 \/ left2 \/ left3
           IN
           /\ extractionFails => flush
           /\ last_extracted_index' =
                  IF flush /\ ~extractionFails
                  THEN extract_remaining(messages, last_extracted_index)
                  ELSE last_extracted_index
           /\ scans' =
                  IF flush
                  THEN Scan(scans, last_extracted_index, ~extractionFails)
                  ELSE scans
           /\ open_connections' = IF disconnects
                                  THEN open_connections \ {mcp_client}
                                  ELSE open_connections
           /\ mcp_client' = IF left THEN mcp_client ELSE 0
           /\ agent' = IF left THEN agent ELSE NoAgent
           /\ memory_manager' = (left /\ memory_manager)
           /\ session_store' = (left /\ session_store)
           /\ mcp_connected' = (left /\ mcp_connected)
           /\ agent_ready' = (left /\ agent_ready)
           /\ life_last' =
                  [op |-> "cleanup", result |-> IF left THEN "raised" ELSE "ok",
                   before |-> agent,
                   skipped |-> (IF mcp_client # 0 /\ ~disconnects
                                THEN {"disconnect"} ELSE {})
                               \cup (IF session_store /\ ~closes
                                     THEN {"close"} ELSE {})]
    /\ events' = <<>>
    /\ raised' = FALSE
    /\ lastCall' = [accepted |-> FALSE, fault |-> "none"]
    /\ UNCHANGED <<messages, tool_calls, is_processing, is_streaming,
                   error_message, title_set, meta, thread, streamed, turns, settings,
                   use_redis, use_long_term, model, model_key, checkpointer,
                   available_tools, created, built, init>>
    /\ UNCHANGED <<connVars, storeVars, threadVars, manager_last, generator>>

(***************************************************************************)
(* MCPClient (mcp_client/client.py:63-161): connect(), the background      *)
(* connection task and disconnect().  connect() call number g creates the  *)
(* events g and the task g; an event is an object, so a caller or a task   *)
(* that waits on an event keeps waiting on that object after the client's  *)
(* attribute has been replaced or cleared.                                 *)
(***************************************************************************)
MaxConnects == 2   \* connect() calls per client

TaskIds == 1..MaxConnects

DiscoveredTools == <<"kubectl">>

NoTask == [pc |-> "none", stop |-> 0]

NoWaiter == [pc |-> "none", tools |-> <<>>]

IdleDisconnect == [pc |-> "idle", task |-> 0, result |-> "none"]

\* self._ready_event.set()
FireReady == ready_set \cup {ready_event}

\* lines 69-77: new events, new task, then the caller waits on its ready event;
\* callers connect a client that holds no connection task (a new client, as in
\* AgentSession._connect_mcp, or one that was disconnected)
connect ==
    /\ connects < MaxConnects
    /\ connection_task = 0
    /\ connects' = connects + 1
    /\ stop_event' = connects + 1
    /\ ready_event' = connects + 1
    /\ client_error' = FALSE
    /\ connection_task' = connects + 1
    /\ task' = [task EXCEPT ![connects + 1] = [pc |-> "created", stop |-> 0]]
    /\ waiter' = [waiter EXCEPT ![connects + 1].pc = "waiting"]
    /\ UNCHANGED <<transport, server_url, called, session, client_tools, stop_set,
                   ready_set, disc>>
    /\ UNCHANGED <<turnVars, lifeVars, storeVars, threadVars, manager_last, generator>>

\* the except block of _run_connection (lines 91-94); with the ready event
\* cleared, self._ready_event.set() raises inside the handler
ErrorCaptured(g) ==
    /\ client_error' = TRUE
    /\ IF ready_event = 0
       THEN /\ task' = [task EXCEPT ![g].pc = "crashed"]
            /\ UNCHANGED ready_set
       ELSE /\ task' = [task EXCEPT ![g].pc = "done"]
            /\ ready_set' = FireReady

\* the task starts: lines 86-90 and 98-104 or 112-124; refused: opening the
\* transport raises
TaskStart(g, refused) ==
    /\ task[g].pc = "created"
    /\ IF refused \/ (transport = "http" /\ ~server_url)
       THEN /\ ErrorCaptured(g)
            /\ UNCHANGED session
       ELSE /\ session' = g
            /\ task' = [task EXCEPT ![g].pc = "handshake"]
            /\ UNCHANGED <<client_error, ready_set>>
    /\ UNCHANGED <<transport, server_url, called, client_tools, connection_task,
                   stop_event, ready_event, stop_set, waiter, disc, connects>>

\* _initialize_session returned: tools stored, ready fired, the task waits
\* for the stop event (lines 105-108, 125-128, 130-139)
TaskHandshakeOk(g) ==
    /\ task[g].pc = "handshake"
    /\ client_tools' = DiscoveredTools
    /\ IF ready_event = 0
       THEN ErrorCaptured(g)
       ELSE /\ ready_set' = FireReady
            /\ task' = [task EXCEPT ![g] = [pc |-> "serving", stop |-> stop_event]]
            /\ UNCHANGED client_error
    /\ UNCHANGED <<transport, server_url, called, session, connection_task, stop_event,
                   ready_event, stop_set, waiter, disc, connects>>

\* _initialize_session raised (lines 130-139); discovered: list_tools had
\* returned and self._tools was assigned before load_mcp_tools raised.  The
\* session handle assigned at line 104 or 124 is kept.
TaskHandshakeRaises(g, discovered) ==
    /\ task[g].pc = "handshake"
    /\ ErrorCaptured(g)
    /\ client_tools' = IF discovered THEN DiscoveredTools ELSE client_tools
    /\ UNCHANGED <<transport, server_url, called, session, connection_task,
                   stop_event, ready_event, stop_set, waiter, disc, connects>>

\* the stop event the task waits on is set: the contexts exit, the task ends
TaskStops(g) ==
    /\ task[g].pc = "serving"
    /\ task[g].stop \in stop_set
    /\ task' = [task EXCEPT ![g].pc = "done"]
    /\ UNCHANGED <<transport, server_url, called, session, client_tools, connection_task,
                   stop_event, ready_event, stop_set, ready_set, client_error,
                   waiter, disc, connects>>

\* connect() resumes from self._ready_event.wait() (lines 77-82)
ConnectWakes(g) ==
    /\ waiter[g].pc = "waiting"
    /\ g \in ready_set
    /\ waiter' = [waiter EXCEPT ![g] =
                      IF client_error THEN [pc |-> "raised", tools |-> <<>>]
                      ELSE [pc |-> "returned", tools |-> client_tools]]
    /\ UNCHANGED <<transport, server_url, called, session, client_tools, connection_task,
                   stop_event, ready_event, stop_set, ready_set, client_error,
                   task, disc, connects>>
    /\ UNCHANGED <<turnVars, lifeVars, storeVars, threadVars, manager_last, generator>>

\* lines 156-161 of disconnect
FieldsCleared ==
    /\ session' = 0
    /\ client_tools' = <<>>
    /\ connection_task' = 0
    /\ stop_event' = 0
    /\ ready_event' = 0

\* disconnect() up to the await of wait_for (lines 143-148); wait_for of a
\* task that has ended returns, or raises the task's exception, at once
DisconnectCall ==
    /\ disc.pc = "idle"
    /\ stop_set' = IF stop_event = 0 THEN stop_set ELSE stop_set \cup {stop_event}
    /\ IF connection_task = 0 \/ task[connection_task].pc = "done"
       THEN /\ FieldsCleared
            /\ disc' = [IdleDisconnect EXCEPT !.result = "ok"]
       ELSE IF task[connection_task].pc = "crashed"
       THEN /\ disc' = [IdleDisconnect EXCEPT !.result = "raised"]
            /\ UNCHANGED <<session, client_tools, connection_task, stop_event,
                           ready_event>>
       ELSE /\ disc' = [pc |-> "waiting", task |-> connection_task,
                        result |-> "none"]
            /\ UNCHANGED <<session, client_tools, connection_task, stop_event,
                           ready_event>>
    /\ UNCHANGED <<transport, server_url, called, ready_set, client_error, task, waiter,
                   connects>>

\* the awaited task ended within the timeout
DisconnectTaskEnded ==
    /\ disc.pc = "waiting"
    /\ task[disc.task].pc \in {"done", "crashed"}
    /\ IF task[disc.task].pc = "done"
       THEN /\ FieldsCleared
            /\ disc' = [IdleDisconnect EXCEPT !.result = "ok"]
       ELSE /\ disc' = [IdleDisconnect EXCEPT !.result = "raised"]
            /\ UNCHANGED <<session, client_tools, connection_task, stop_event,
                           ready_event>>
    /\ UNCHANGED <<transport, server_url, called, stop_set, ready_set, client_error,
                   task, waiter, connects>>

\* a faulty variant of DisconnectTimeout: the task is cancelled and the call
\* goes on waiting for it
DisconnectTimeoutKeepsWaiting ==
    /\ disc.pc = "waiting"
    /\ task[disc.task].pc \in {"created", "handshake"}
    /\ task' = [task EXCEPT ![disc.task].pc = "cancelled"]
    /\ UNCHANGED <<transport, server_url, called, session, client_tools, connection_task,
                   stop_event, ready_event, stop_set, ready_set, client_error,
                   waiter, disc, connects>>

\* the timeout of wait_for expired (lines 149-154): the task, which did not
\* reach or did not leave its wait for the stop event, is cancelled
DisconnectTimeout ==
    /\ disc.pc = "waiting"
    /\ \/ task[disc.task].pc \in {"created", "handshake"}
       \/ task[disc.task].pc = "serving" /\ task[disc.task].stop \notin stop_set
    /\ task' = [task EXCEPT ![disc.task].pc = "cancelled"]
    /\ FieldsCleared
    /\ disc' = [IdleDisconnect EXCEPT !.result = "ok"]
    /\ UNCHANGED <<transport, server_url, called, stop_set, ready_set, client_error,
                   waiter, connects>>

\* a faulty variant of ToolResult: the test of the session is missing
ToolResultUnguarded(s) == "sent"

\* lines 203-206 of call_tool: without session the call raises "Not connected
\* to MCP server", with one the request goes to the server
ToolResult(s) == IF s = 0 THEN "not_connected" ELSE "sent"

\* MCPClient.call_tool (lines 192-210), with the connection task and the
\* number of connect() calls at the time of the call
call_tool ==
    /\ called' = [result |-> ToolResult(session), task |-> connection_task,
                  connects |-> connects]
    /\ UNCHANGED <<transport, server_url, session, client_tools, connection_task,
                   stop_event, ready_event, stop_set, ready_set, client_error,
                   task, waiter, disc, connects>>
    /\ UNCHANGED <<turnVars, lifeVars, storeVars, threadVars, manager_last, generator>>

disconnect ==
    \/ DisconnectCall /\ UNCHANGED <<turnVars, lifeVars, storeVars, threadVars, manager_last, generator>>
    \/ DisconnectTaskEnded /\ UNCHANGED <<turnVars, lifeVars, storeVars, threadVars, manager_last, generator>>
    \/ DisconnectTimeout /\ UNCHANGED <<turnVars, lifeVars, storeVars, threadVars, manager_last, generator>>

run_connection ==
    \E g \in TaskIds :
        \/ \E refused \in BOOLEAN :
               TaskStart(g, refused) /\ UNCHANGED <<turnVars, lifeVars, storeVars, threadVars, manager_last, generator>>
        \/ TaskHandshakeOk(g) /\ UNCHANGED <<turnVars, lifeVars, storeVars, threadVars, manager_last, generator>>
        \/ \E discovered \in BOOLEAN :
               TaskHandshakeRaises(g, discovered) /\ UNCHANGED <<turnVars, lifeVars, storeVars, threadVars, manager_last, generator>>
        \/ TaskStops(g) /\ UNCHANGED <<turnVars, lifeVars, storeVars, threadVars, manager_last, generator>>

\* a client after construction with the HTTP transport and a server URL
ConnIdle ==
    /\ session = 0
    /\ client_tools = <<>>
    /\ connection_task = 0
    /\ stop_event = 0
    /\ ready_event = 0
    /\ stop_set = {}
    /\ ready_set = {}
    /\ client_error = FALSE
    /\ task = [g \in TaskIds |-> NoTask]
    /\ waiter = [g \in TaskIds |-> NoWaiter]
    /\ disc = IdleDisconnect
    /\ connects = 0
    /\ called = [result |-> "none", task |-> 0, connects |-> 0]

(***************************************************************************)
(* Session metadata stores.  SessionStore (session/store.py) keeps one     *)
(* JSON record per session and a sorted set scored by update time; each of *)
(* its methods is split at its Redis commands, which is where calls of     *)
(* several store instances on one database interleave.  FileSessionStore   *)
(* (session/file_store.py) keeps an index file; its methods do not         *)
(* suspend.  Timestamps are readings of a clock that advances with every   *)
(* reading; the ISO strings and the float scores order as the readings do. *)
(***************************************************************************)
MaxOps == 3        \* store calls per run
DefaultLimit == 10 \* list_sessions(limit=10)

SessionIds == {1, 2, 3}

\* the max_sessions arguments of enforce_session_limit
Limits == {0, 1, 2}

\* the store instances that share the database
StoreClients == {"A", "B"}

NewChat == <<"N">>

\* the keyword arguments that update_session calls pass
UpdateValues == [title |-> <<"T">>, preview |-> <<"p">>, message_count |-> 2]

NoRecord ==
    [session_id |-> 0, title |-> <<>>, preview |-> <<>>, message_count |-> 0,
     created_at |-> 0, updated_at |-> 0]

\* SessionMetadata of create_session
Metadata(sid, now) ==
    [session_id |-> sid, title |-> NewChat, preview |-> <<>>, message_count |-> 0,
     created_at |-> now, updated_at |-> now]

\* the field sets of the update_session calls: the timestamp only (resume),
\* the title (rename, first message), the preview and count (after a turn)
UpdateArgs == {{}, {"title"}, {"preview", "message_count"}}

\* update_session: the given fields are set, the timestamp always
Updated(md, fields, now) ==
    [md EXCEPT !.title = IF "title" \in fields THEN UpdateValues.title ELSE @,
               !.preview = IF "preview" \in fields
                           THEN Take(UpdateValues.preview, PreviewLen) ELSE @,
               !.message_count = IF "message_count" \in fields
                                 THEN UpdateValues.message_count ELSE @,
               !.updated_at = now]

NoBefore == [sid \in SessionIds |-> 0]

\* a call record; ids and sessions are the locals of list_sessions, versions
\* the records the database held while the call ran, updates_only whether
\* only update_session and list_sessions calls ran beside it
IdleOp ==
    [kind |-> "idle", pc |-> "idle", sid |-> 0, fields |-> {}, md |-> NoRecord,
     n |-> 0, count |-> 0, todo |-> <<>>, deleted |-> <<>>, before |-> NoBefore,
     alone |-> TRUE, ids |-> <<>>, sessions |-> <<>>, versions |-> {},
     updates_only |-> TRUE]

\* the call record of a client whose process has stopped
Stopped == [IdleOp EXCEPT !.kind = "stopped", !.pc = "stopped"]

NoLast ==
    [op |-> "none", n |-> 0, result |-> <<>>, before |-> NoBefore, alone |-> TRUE,
     call |-> IdleOp]

\* ZRANGE index 0 -1 over the members S: ascending score, then member
RECURSIVE ZRange(_, _)
ZRange(idx, S) ==
    IF S = {} THEN <<>>
    ELSE LET m == CHOOSE x \in S : \A y \in S :
                      \/ idx[x] < idx[y]
                      \/ idx[x] = idx[y] /\ x <= y
         IN  <<m>> \o ZRange(idx, S \ {m})

Members(idx) == {sid \in SessionIds : idx[sid] # 0}

RECURSIVE Reverse(_)
Reverse(q) == IF q = <<>> THEN <<>> ELSE Append(Reverse(Tail(q)), Head(q))

\* list.sort(key=updated_at): stable, ascending
RECURSIVE InsertAsc(_, _)
InsertAsc(sorted, e) ==
    IF sorted = <<>> THEN <<e>>
    ELSE IF Head(sorted).updated_at <= e.updated_at
         THEN <<Head(sorted)>> \o InsertAsc(Tail(sorted), e)
         ELSE <<e>> \o sorted

RECURSIVE SortAsc(_)
SortAsc(q) ==
    IF q = <<>> THEN <<>>
    ELSE InsertAsc(SortAsc(SubSeq(q, 1, Len(q) - 1)), q[Len(q)])

\* list.sort(key=updated_at, reverse=True): stable, descending
RECURSIVE InsertDesc(_, _)
InsertDesc(sorted, e) ==
    IF sorted = <<>> THEN <<e>>
    ELSE IF Head(sorted).updated_at >= e.updated_at
         THEN <<Head(sorted)>> \o InsertDesc(Tail(sorted), e)
         ELSE <<e>> \o sorted

RECURSIVE SortDesc(_)
SortDesc(q) ==
    IF q = <<>> THEN <<>>
    ELSE InsertDesc(SortDesc(SubSeq(q, 1, Len(q) - 1)), q[Len(q)])

\* the records of the ids in q that get_session finds
RECURSIVE Fetch(_, _)
Fetch(data, q) ==
    IF q = <<>> THEN <<>>
    ELSE (IF data[Head(q)] = NoRecord THEN <<>> ELSE <<data[Head(q)]>>)
             \o Fetch(data, Tail(q))

\* index entries whose session_id is not sid, in order
RECURSIVE Without(_, _)
Without(idx, sid) ==
    IF idx = <<>> THEN <<>>
    ELSE (IF Head(idx).session_id = sid THEN <<>> ELSE <<Head(idx)>>)
             \o Without(Tail(idx), sid)

\* position of the first entry of idx whose session_id is sid, 0 if none
RECURSIVE FirstEntry(_, _, _)
FirstEntry(idx, sid, i) ==
    IF i > Len(idx) THEN 0
    ELSE IF idx[i].session_id = sid THEN i
    ELSE FirstEntry(idx, sid, i + 1)

\* get_session of the backend in use
get_session(sid) ==
    IF backend = "redis" THEN redis_data[sid]
    ELSE IF FirstEntry(file_index, sid, 1) = 0 THEN NoRecord
    ELSE file_index[FirstEntry(file_index, sid, 1)]

\* get_session_count of the backend in use
get_session_count ==
    IF backend = "redis" THEN Cardinality(Members(redis_index))
    ELSE Len(file_index)

\* list_sessions(limit) of the backend in use
list_sessions(limit) ==
    IF backend = "redis"
    THEN SortDesc(Fetch(redis_data,
                        Take(Reverse(ZRange(redis_index, Members(redis_index))),
                             limit)))
    ELSE Take(SortDesc(file_index), limit)

\* update time of every session that has a record, 0 for the others
Snapshot == [sid \in SessionIds |-> get_session(sid).updated_at]

Quiescent == \A c \in StoreClients : ops[c].kind = "idle"

ReadsAndUpdates == {"idle", "update_session", "list_sessions"}

\* the calls in flight, once a call of the given kind has started beside them
Overlapped(kind) ==
    [c \in StoreClients |->
        IF ops[c].kind \in {"idle", "stopped"} THEN ops[c]
        ELSE [ops[c] EXCEPT !.alone = FALSE,
                            !.updates_only =
                                IF ops[c].kind = "list_sessions"
                                THEN @ /\ kind \in ReadsAndUpdates ELSE @]]

\* the calls in flight, once the record md has been SET: a record that the
\* database has held while a list_sessions call ran
Noting(os, md) ==
    [c \in StoreClients |->
        IF os[c].kind = "list_sessions"
        THEN [os[c] EXCEPT !.versions = @ \cup {md}] ELSE os[c]]

\* client c, whose process runs and has no call in flight, starts a call on
\* the Redis store
Begin(c) ==
    /\ backend = "redis"
    /\ ops[c].kind = "idle"
    /\ opcount < MaxOps
    /\ opcount' = opcount + 1

\* the call of client c returns result
Finish(c, result) ==
    /\ ops' = [ops EXCEPT ![c] = IdleOp]
    /\ store_last' = [op |-> ops[c].kind, n |-> ops[c].n, result |-> result,
                      before |-> ops[c].before, alone |-> ops[c].alone,
                      call |-> ops[c]]

\* SessionStore.create_session, lines 91-109: the record is SET
RedisCreate(c, sid) ==
    /\ Begin(c)
    /\ clock' = clock + 1
    /\ redis_data' = [redis_data EXCEPT ![sid] = Metadata(sid, clock + 1)]
    /\ acked' = [acked EXCEPT ![sid] = {}]
    /\ ops' = [Noting(Overlapped("create_session"), Metadata(sid, clock + 1))
                  EXCEPT ![c] =
                  [IdleOp EXCEPT !.kind = "create_session", !.pc = "zadd",
                                 !.sid = sid, !.before = Snapshot,
                                 !.alone = Quiescent]]
    /\ store_last' = NoLast
    /\ UNCHANGED <<backend, redis_index, file_index, file_sessions>>

\* create_session lines 111-113 and update_session lines 206-208: ZADD with a
\* new reading of the clock as the score
RedisZadd(c) ==
    /\ ops[c].pc = "zadd"
    /\ clock' = clock + 1
    /\ redis_index' = [redis_index EXCEPT ![ops[c].sid] = clock + 1]
    /\ Finish(c, <<ops[c].sid>>)
    /\ UNCHANGED <<backend, redis_data, file_index, file_sessions, acked, opcount>>

\* SessionStore.update_session, lines 183-196: GET, then the changes are made
\* on the copy that was read
RedisUpdateGet(c, sid, fields) ==
    /\ Begin(c)
    /\ IF redis_data[sid] = NoRecord
       THEN /\ ops' = Overlapped("update_session")
            /\ store_last' = [NoLast EXCEPT !.op = "update_session",
                                            !.before = Snapshot,
                                            !.alone = Quiescent]
            /\ UNCHANGED clock
       ELSE /\ clock' = clock + 1
            /\ ops' = [Overlapped("update_session") EXCEPT ![c] =
                          [IdleOp EXCEPT !.kind = "update_session", !.pc = "set",
                                         !.sid = sid, !.fields = fields,
                                         !.md = Updated(redis_data[sid], fields,
                                                        clock + 1),
                                         !.before = Snapshot,
                                         !.alone = Quiescent]]
            /\ store_last' = NoLast
    /\ UNCHANGED <<backend, redis_data, redis_index, file_index, file_sessions,
                   acked>>

\* update_session lines 198-203: the whole record is SET
RedisUpdateSet(c) ==
    /\ ops[c].pc = "set"
    /\ redis_data' = [redis_data EXCEPT ![ops[c].sid] = ops[c].md]
    /\ acked' = [acked EXCEPT ![ops[c].sid] = @ \cup ops[c].fields]
    /\ ops' = [Noting(ops, ops[c].md) EXCEPT ![c].pc = "zadd"]
    /\ store_last' = NoLast
    /\ UNCHANGED <<backend, redis_index, file_index, file_sessions, clock, opcount>>

\* SessionStore.delete_session is called
RedisDeleteCall(c, sid) ==
    /\ Begin(c)
    /\ ops' = [Overlapped("delete_session") EXCEPT ![c] =
                  [IdleOp EXCEPT !.kind = "delete_session", !.pc = "exists",
                                 !.sid = sid, !.todo = <<sid>>,
                                 !.before = Snapshot, !.alone = Quiescent]]
    /\ store_last' = NoLast
    /\ UNCHANGED <<backend, redis_data, redis_index, file_index, file_sessions,
                   clock, acked>>

\* SessionStore.enforce_session_limit, lines 286-290: ZCARD
RedisEnforceCount(c, max_sessions) ==
    /\ Begin(c)
    /\ IF get_session_count <= max_sessions
       THEN /\ ops' = Overlapped("enforce_session_limit")
            /\ store_last' = [NoLast EXCEPT !.op = "enforce_session_limit",
                                            !.n = max_sessions,
                                            !.before = Snapshot,
                                            !.alone = Quiescent]
       ELSE /\ ops' = [Overlapped("enforce_session_limit") EXCEPT ![c] =
                          [IdleOp EXCEPT !.kind = "enforce_session_limit",
                                         !.pc = "zrange", !.n = max_sessions,
                                         !.count = get_session_count,
                                         !.before = Snapshot,
                                         !.alone = Quiescent]]
            /\ store_last' = NoLast
    /\ UNCHANGED <<backend, redis_data, redis_index, file_index, file_sessions,
                   clock, acked>>

\* enforce_session_limit lines 292-294: ZRANGE of the oldest
RedisEnforceRange(c) ==
    LET oldest == Take(ZRange(redis_index, Members(redis_index)),
                       ops[c].count - ops[c].n)
    IN
    /\ ops[c].pc = "zrange"
    /\ IF oldest = <<>>
       THEN Finish(c, <<>>)
       ELSE /\ ops' = [ops EXCEPT ![c].pc = "exists", ![c].todo = oldest]
            /\ store_last' = NoLast
    /\ UNCHANGED <<backend, redis_data, redis_index, file_index, file_sessions,
                   clock, acked, opcount>>

\* delete_session lines 227-229: EXISTS; a missing record ends the deletion
RedisDeleteExists(c) ==
    /\ ops[c].pc = "exists"
    /\ IF redis_data[Head(ops[c].todo)] # NoRecord
       THEN /\ ops' = [ops EXCEPT ![c].pc = "zrem"]
            /\ store_last' = NoLast
       ELSE IF Tail(ops[c].todo) = <<>>
       THEN Finish(c, ops[c].deleted)
       ELSE /\ ops' = [ops EXCEPT ![c].todo = Tail(@)]
            /\ store_last' = NoLast
    /\ UNCHANGED <<backend, redis_data, redis_index, file_index, file_sessions,
                   clock, acked, opcount>>

\* delete_session lines 231-232: ZREM
RedisDeleteZrem(c) ==
    /\ ops[c].pc = "zrem"
    /\ redis_index' = [redis_index EXCEPT ![Head(ops[c].todo)] = 0]
    /\ ops' = [ops EXCEPT ![c].pc = "del"]
    /\ store_last' = NoLast
    /\ UNCHANGED <<backend, redis_data, file_index, file_sessions, clock, acked,
                   opcount>>

\* delete_session lines 234-238: DEL of the record and of the tool calls
RedisDeleteKey(c) ==
    /\ ops[c].pc = "del"
    /\ redis_data' = [redis_data EXCEPT ![Head(ops[c].todo)] = NoRecord]
    /\ acked' = [acked EXCEPT ![Head(ops[c].todo)] = {}]
    /\ IF Tail(ops[c].todo) = <<>>
       THEN Finish(c, Append(ops[c].deleted, Head(ops[c].todo)))
       ELSE /\ ops' = [ops EXCEPT ![c].pc = "exists", ![c].todo = Tail(@),
                                  ![c].deleted = Append(@, Head(ops[c].todo))]
            /\ store_last' = NoLast
    /\ UNCHANGED <<backend, redis_index, file_index, file_sessions, clock, opcount>>

\* a faulty variant of Listed: the test of the fetched record is inverted
ListedInverted(sessions, md) ==
    IF md = NoRecord THEN Append(sessions, md) ELSE sessions

\* the append of list_sessions, lines 157-159: a session whose record is
\* gone is left out
Listed(sessions, md) == IF md = NoRecord THEN sessions ELSE Append(sessions, md)

\* SessionStore.list_sessions, lines 144-150: ZREVRANGE of the newest ids
RedisListRange(c) ==
    LET session_ids == Take(Reverse(ZRange(redis_index, Members(redis_index))),
                            DefaultLimit)
        call == [IdleOp EXCEPT
                    !.kind = "list_sessions", !.pc = "get",
                    !.ids = session_ids, !.todo = session_ids,
                    !.versions = {redis_data[sid] : sid \in SessionIds},
                    !.updates_only = \A o \in StoreClients :
                                         ops[o].kind \in ReadsAndUpdates,
                    !.before = Snapshot, !.alone = Quiescent]
    IN
    /\ Begin(c)
    /\ IF session_ids = <<>>
       THEN /\ ops' = Overlapped("list_sessions")
            /\ store_last' = [NoLast EXCEPT !.op = "list_sessions",
                                            !.before = Snapshot,
                                            !.alone = Quiescent, !.call = call]
       ELSE /\ ops' = [Overlapped("list_sessions") EXCEPT ![c] = call]
            /\ store_last' = NoLast
    /\ UNCHANGED <<backend, redis_data, redis_index, file_index, file_sessions,
                   clock, acked>>

\* list_sessions lines 154-164: one GET per id, then the sort of what was
\* fetched
RedisListGet(c) ==
    LET sessions == Listed(ops[c].sessions, redis_data[Head(ops[c].todo)]) IN
    /\ ops[c].pc = "get"
    /\ IF Tail(ops[c].todo) = <<>>
       THEN Finish(c, SortDesc(sessions))
       ELSE /\ ops' = [ops EXCEPT ![c].todo = Tail(@), ![c].sessions = sessions]
            /\ store_last' = NoLast
    /\ UNCHANGED <<backend, redis_data, redis_index, file_index, file_sessions,
                   clock, acked, opcount>>

\* the process of client c stops: the commands that its call in flight has
\* not sent are never sent, the database keeps what was written, and the
\* client makes no further call
ProcessStops(c) ==
    /\ backend = "redis"
    /\ ops[c].kind \notin {"idle", "stopped"}
    /\ ops' = [ops EXCEPT ![c] = Stopped]
    /\ store_last' = [NoLast EXCEPT !.op = "stopped"]
    /\ UNCHANGED <<backend, redis_data, redis_index, file_index, file_sessions,
                   clock, acked, opcount>>

\* the other variables, which no store call touches
storeFrame == <<turnVars, lifeVars, connVars, init_store, threadVars, manager_last, generator>>

redis_store ==
    \E c \in StoreClients :
        \/ \E sid \in SessionIds : RedisCreate(c, sid) /\ UNCHANGED storeFrame
        \/ RedisZadd(c) /\ UNCHANGED storeFrame
        \/ \E sid \in SessionIds, fields \in UpdateArgs :
               RedisUpdateGet(c, sid, fields) /\ UNCHANGED storeFrame
        \/ RedisUpdateSet(c) /\ UNCHANGED storeFrame
        \/ \E sid \in SessionIds : RedisDeleteCall(c, sid) /\ UNCHANGED storeFrame
        \/ \E max_sessions \in Limits :
               RedisEnforceCount(c, max_sessions) /\ UNCHANGED storeFrame
        \/ RedisEnforceRange(c) /\ UNCHANGED storeFrame
        \/ RedisDeleteExists(c) /\ UNCHANGED storeFrame
        \/ RedisDeleteZrem(c) /\ UNCHANGED storeFrame
        \/ RedisDeleteKey(c) /\ UNCHANGED storeFrame
        \/ RedisListRange(c) /\ UNCHANGED storeFrame
        \/ RedisListGet(c) /\ UNCHANGED storeFrame
        \/ ProcessStops(c) /\ UNCHANGED storeFrame

(***************************************************************************)
(* AgentSession._init_session_store (session/agent_session.py lines        *)
(* 188-221) on the store instance "A": session_exists, then either         *)
(* update_session or create_session and enforce_session_limit.  The calls  *)
(* it makes are the SessionStore calls above, so that the calls of another *)
(* store instance interleave with them at every Redis command.             *)
(***************************************************************************)
\* self.session_id of the controller
ControllerSession == 1

\* the call record: held is what EXISTS answered, history whether the
\* checkpointer holds messages of the thread, calls the store methods that
\* were called, before the database when the call started, alone whether
\* no other client has taken a step since the call started
IdleInitStore ==
    [pc |-> "idle", sid |-> 0, max_sessions |-> 0, held |-> FALSE,
     history |-> FALSE, result |-> FALSE, calls |-> <<>>,
     before |-> [data |-> [sid \in SessionIds |-> NoRecord],
                 index |-> [sid \in SessionIds |-> 0]],
     alone |-> TRUE]

\* a faulty variant of IsResuming: the checkpointer's content decides
IsResumingFromHistory(held, history) == history

\* the test of line 209: the answer of session_exists alone
IsResuming(held, history) == held

\* lines 194-209: with Redis configured, SessionStore.session_exists (store.py
\* lines 265-266), one EXISTS command
InitStoreExists(max_sessions, history) ==
    LET sid == ControllerSession
        held == redis_data[sid] # NoRecord
    IN
    /\ backend = "redis"
    /\ init_store.pc \in {"idle", "returned", "raised"}
    /\ ops["A"].kind = "idle"
    /\ opcount < MaxOps
    /\ init_store' = [IdleInitStore EXCEPT
                         !.pc = IF IsResuming(held, history)
                                THEN "update" ELSE "create",
                         !.sid = sid, !.max_sessions = max_sessions,
                         !.held = held, !.history = history,
                         !.before = [data |-> redis_data, index |-> redis_index]]
    /\ UNCHANGED <<backend, redis_data, redis_index, file_index, file_sessions,
                   clock, ops, store_last, acked, opcount>>

\* what the call does once the store method it awaits has returned
AfterStoreCall(method) ==
    IF ops'["A"].kind # "idle"
    THEN [init_store EXCEPT !.pc = method]
    ELSE CASE method = "update_session" ->
                  [init_store EXCEPT !.pc = "returned", !.result = TRUE]
           [] method = "create_session" -> [init_store EXCEPT !.pc = "enforce"]
           [] OTHER -> [init_store EXCEPT !.pc = "returned", !.result = FALSE]

\* line 212: update_session(session_id) is called with no field
InitStoreUpdate ==
    /\ init_store.pc = "update"
    /\ RedisUpdateGet("A", init_store.sid, {})
    /\ init_store' = [AfterStoreCall("update_session") EXCEPT
                         !.calls = Append(@, "update_session")]

\* line 216: create_session(session_id) is called
InitStoreCreate ==
    /\ init_store.pc = "create"
    /\ RedisCreate("A", init_store.sid)
    /\ init_store' = [AfterStoreCall("create_session") EXCEPT
                         !.calls = Append(@, "create_session")]

\* line 218: enforce_session_limit(app_settings.max_sessions) is called
InitStoreEnforce ==
    /\ init_store.pc = "enforce"
    /\ RedisEnforceCount("A", init_store.max_sessions)
    /\ init_store' = [AfterStoreCall("enforce_session_limit") EXCEPT
                         !.calls = Append(@, "enforce_session_limit")]

\* the store method that the call awaits sends its next command
InitStoreStep ==
    /\ init_store.pc \in {"update_session", "create_session", "enforce_session_limit"}
    /\ \/ RedisZadd("A")
       \/ RedisUpdateSet("A")
       \/ RedisEnforceRange("A")
       \/ RedisDeleteExists("A")
       \/ RedisDeleteZrem("A")
       \/ RedisDeleteKey("A")
    /\ init_store' = AfterStoreCall(init_store.pc)

\* a Redis command of the call raises (the server is unreachable): the
\* exception leaves _init_session_store and the store method it was in
InitStoreRaises ==
    /\ init_store.pc \notin {"idle", "returned", "raised"}
    /\ init_store' = [init_store EXCEPT !.pc = "raised"]
    /\ ops' = [ops EXCEPT !["A"] = IdleOp]
    /\ store_last' = NoLast
    /\ UNCHANGED <<backend, redis_data, redis_index, file_index, file_sessions,
                   clock, acked, opcount>>

\* a step of another store instance on the same database, which creates,
\* updates and deletes the controller's session and one other session
OtherClient ==
    /\ \/ \E sid \in {ControllerSession, 2} : RedisCreate("B", sid)
       \/ \E sid \in {ControllerSession, 2} : RedisUpdateGet("B", sid, {"title"})
       \/ \E sid \in {ControllerSession, 2} : RedisDeleteCall("B", sid)
       \/ RedisUpdateSet("B")
       \/ RedisZadd("B")
       \/ RedisDeleteExists("B")
       \/ RedisDeleteZrem("B")
       \/ RedisDeleteKey("B")
    /\ init_store' = IF init_store.pc = "idle" THEN init_store
                     ELSE [init_store EXCEPT !.alone = FALSE]

resumeFrame == <<turnVars, lifeVars, connVars, threadVars, manager_last, generator>>

init_session_store ==
    \/ \E max_sessions \in Limits, history \in BOOLEAN :
           InitStoreExists(max_sessions, history) /\ UNCHANGED resumeFrame
    \/ InitStoreUpdate /\ UNCHANGED resumeFrame
    \/ InitStoreCreate /\ UNCHANGED resumeFrame
    \/ InitStoreEnforce /\ UNCHANGED resumeFrame
    \/ InitStoreStep /\ UNCHANGED resumeFrame
    \/ InitStoreRaises /\ UNCHANGED resumeFrame

\* a call on the file store: it runs to its end without suspending
FileCall ==
    /\ backend = "file"
    /\ opcount < MaxOps
    /\ opcount' = opcount + 1
    /\ UNCHANGED <<backend, redis_data, redis_index, ops>>

FileReturns(op, n, result) ==
    store_last' = [op |-> op, n |-> n, result |-> result, before |-> Snapshot,
                   alone |-> TRUE, call |-> IdleOp]

\* FileSessionStore.create_session: the session file gets a metadata line and
\* the index one more entry
FileCreate(sid) ==
    /\ FileCall
    /\ clock' = clock + 1
    /\ file_sessions' = file_sessions \cup {sid}
    /\ file_index' = Append(file_index, Metadata(sid, clock + 1))
    /\ acked' = [acked EXCEPT ![sid] = {}]
    /\ FileReturns("create_session", 0, <<sid>>)

\* FileSessionStore.update_session: the first entry of the id is rewritten
FileUpdate(sid, fields) ==
    LET i == FirstEntry(file_index, sid, 1) IN
    /\ FileCall
    /\ IF i = 0
       THEN /\ FileReturns("update_session", 0, <<>>)
            /\ UNCHANGED <<clock, file_index, acked>>
       ELSE /\ clock' = clock + 1
            /\ file_index' = [file_index EXCEPT
                                 ![i] = Updated(file_index[i], fields, clock + 1)]
            /\ acked' = [acked EXCEPT ![sid] = @ \cup fields]
            /\ FileReturns("update_session", 0, <<sid>>)
    /\ UNCHANGED file_sessions

\* FileSessionStore.delete_session: every entry of the id leaves the index
FileDelete(sid) ==
    /\ FileCall
    /\ IF Len(Without(file_index, sid)) = Len(file_index)
       THEN /\ FileReturns("delete_session", 0, <<>>)
            /\ UNCHANGED <<file_index, file_sessions, acked>>
       ELSE /\ file_index' = Without(file_index, sid)
            /\ file_sessions' = file_sessions \ {sid}
            /\ acked' = [acked EXCEPT ![sid] = {}]
            /\ FileReturns("delete_session", 0, <<sid>>)
    /\ UNCHANGED clock

\* the loop of FileSessionStore.enforce_session_limit, lines 376-380
RECURSIVE FileDeleteEach(_, _, _)
FileDeleteEach(idx, to_delete, deleted) ==
    IF to_delete = <<>> THEN [index |-> idx, deleted |-> deleted]
    ELSE LET sid == Head(to_delete).session_id IN
         IF Len(Without(idx, sid)) = Len(idx)
         THEN FileDeleteEach(idx, Tail(to_delete), deleted)
         ELSE FileDeleteEach(Without(idx, sid), Tail(to_delete),
                             Append(deleted, sid))

Range(q) == {q[i] : i \in 1..Len(q)}

\* FileSessionStore.enforce_session_limit
FileEnforce(max_sessions) ==
    LET to_delete == Take(SortAsc(file_index), Len(file_index) - max_sessions)
        out == FileDeleteEach(file_index, to_delete, <<>>)
    IN
    /\ FileCall
    /\ IF Len(file_index) <= max_sessions
       THEN /\ FileReturns("enforce_session_limit", max_sessions, <<>>)
            /\ UNCHANGED <<file_index, file_sessions, acked>>
       ELSE /\ file_index' = out.index
            /\ file_sessions' = file_sessions \ Range(out.deleted)
            /\ acked' = [sid \in SessionIds |->
                            IF sid \in Range(out.deleted) THEN {} ELSE acked[sid]]
            /\ FileReturns("enforce_session_limit", max_sessions, out.deleted)
    /\ UNCHANGED clock

file_store ==
    \/ \E sid \in SessionIds : FileCreate(sid) /\ UNCHANGED storeFrame
    \/ \E sid \in SessionIds, fields \in UpdateArgs :
           FileUpdate(sid, fields) /\ UNCHANGED storeFrame
    \/ \E sid \in SessionIds : FileDelete(sid) /\ UNCHANGED storeFrame
    \/ \E max_sessions \in Limits : FileEnforce(max_sessions) /\ UNCHANGED storeFrame

\* what a caller sees of a record, the timestamps aside
Shown(md) ==
    [session_id |-> md.session_id, title |-> md.title, preview |-> md.preview,
     message_count |-> md.message_count]

\* SessionStore.delete_session for each id of todo, one call after the other:
\* an id without record is passed over
RECURSIVE RedisDeleteEach(_, _, _, _)
RedisDeleteEach(data, index, todo, deleted) ==
    IF todo = <<>> THEN [data |-> data, index |-> index, deleted |-> deleted]
    ELSE LET sid == Head(todo) IN
         IF data[sid] = NoRecord
         THEN RedisDeleteEach(data, index, Tail(todo), deleted)
         ELSE RedisDeleteEach([data EXCEPT ![sid] = NoRecord],
                              [index EXCEPT ![sid] = 0],
                              Tail(todo), Append(deleted, sid))

\* one user makes a call on a SessionStore and the same call on a
\* FileSessionStore; each store runs it to its end, no other call beside it
BothCall ==
    /\ backend = "both"
    /\ opcount < MaxOps
    /\ opcount' = opcount + 1
    /\ UNCHANGED <<backend, ops, acked>>

\* what the SessionStore and the FileSessionStore returned for the call
BothReturn(op, redis_result, file_result) ==
    store_last' = [NoLast EXCEPT !.op = "both",
                                 !.result = <<redis_result, file_result>>,
                                 !.call = [IdleOp EXCEPT !.kind = op]]

\* create_session(sid) on both stores
BothCreate(sid) ==
    /\ BothCall
    /\ clock' = clock + 2
    /\ redis_data' = [redis_data EXCEPT ![sid] = Metadata(sid, clock + 1)]
    /\ redis_index' = [redis_index EXCEPT ![sid] = clock + 2]
    /\ file_sessions' = file_sessions \cup {sid}
    /\ file_index' = Append(file_index, Metadata(sid, clock + 1))
    /\ BothReturn("create_session", <<Shown(Metadata(sid, clock + 1))>>,
                  <<Shown(Metadata(sid, clock + 1))>>)

\* update_session(sid, fields) on both stores
BothUpdate(sid, fields) ==
    LET i == FirstEntry(file_index, sid, 1)
        metadata == Updated(redis_data[sid], fields, clock + 1)
        entry == Updated(file_index[i], fields, clock + 1)
    IN
    /\ BothCall
    /\ clock' = clock + 2
    /\ IF redis_data[sid] = NoRecord
       THEN UNCHANGED <<redis_data, redis_index>>
       ELSE /\ redis_data' = [redis_data EXCEPT ![sid] = metadata]
            /\ redis_index' = [redis_index EXCEPT ![sid] = clock + 2]
    /\ file_index' = IF i = 0 THEN file_index
                     ELSE [file_index EXCEPT ![i] = entry]
    /\ UNCHANGED file_sessions
    /\ BothReturn("update_session",
                  IF redis_data[sid] = NoRecord THEN <<>> ELSE <<Shown(metadata)>>,
                  IF i = 0 THEN <<>> ELSE <<Shown(entry)>>)

\* delete_session(sid) on both stores
BothDelete(sid) ==
    LET out == RedisDeleteEach(redis_data, redis_index, <<sid>>, <<>>)
        entries == Without(file_index, sid)
    IN
    /\ BothCall
    /\ redis_data' = out.data
    /\ redis_index' = out.index
    /\ file_index' = entries
    /\ file_sessions' = IF Len(entries) = Len(file_index) THEN file_sessions
                        ELSE file_sessions \ {sid}
    /\ UNCHANGED clock
    /\ BothReturn("delete_session", out.deleted,
                  IF Len(entries) = Len(file_index) THEN <<>> ELSE <<sid>>)

\* enforce_session_limit(max_sessions) on both stores
BothEnforce(max_sessions) ==
    LET count == Cardinality(Members(redis_index))
        oldest_ids == Take(ZRange(redis_index, Members(redis_index)),
                           count - max_sessions)
        out == IF count <= max_sessions
               THEN [data |-> redis_data, index |-> redis_index, deleted |-> <<>>]
               ELSE RedisDeleteEach(redis_data, redis_index, oldest_ids, <<>>)
        to_delete == Take(SortAsc(file_index), Len(file_index) - max_sessions)
        fout == IF Len(file_index) <= max_sessions
                THEN [index |-> file_index, deleted |-> <<>>]
                ELSE FileDeleteEach(file_index, to_delete, <<>>)
    IN
    /\ BothCall
    /\ redis_data' = out.data
    /\ redis_index' = out.index
    /\ file_index' = fout.index
    /\ file_sessions' = file_sessions \ Range(fout.deleted)
    /\ UNCHANGED clock
    /\ BothReturn("enforce_session_limit", out.deleted, fout.deleted)

both_stores ==
    \/ \E sid \in SessionIds : BothCreate(sid) /\ UNCHANGED storeFrame
    \/ \E sid \in SessionIds, fields \in UpdateArgs :
           BothUpdate(sid, fields) /\ UNCHANGED storeFrame
    \/ \E sid \in SessionIds : BothDelete(sid) /\ UNCHANGED storeFrame
    \/ \E max_sessions \in Limits : BothEnforce(max_sessions) /\ UNCHANGED storeFrame

\* no session, no call in flight
StoreIdle ==
    /\ redis_data = [sid \in SessionIds |-> NoRecord]
    /\ redis_index = [sid \in SessionIds |-> 0]
    /\ file_index = <<>>
    /\ file_sessions = {}
    /\ clock = 0
    /\ ops = [c \in StoreClients |-> IdleOp]
    /\ store_last = NoLast
    /\ acked = [sid \in SessionIds |-> {}]
    /\ opcount = 0
    /\ init_store = IdleInitStore

(***************************************************************************)
(* SpecTurn: a controller after a successful initialize() of a new session *)
(* (welcome message shown), under each storage configuration: no Redis,    *)
(* Redis without long-term memory, Redis with long-term memory.            *)
(***************************************************************************)
ReadyAgent ==
    [model |-> [id |-> 1, key |-> ModelKey(DefaultSettings)], checkpointer |-> 1,
     client |-> 1, context |-> FALSE]

TurnInit ==
    /\ messages = <<Message("assistant", WelcomeMsg)>>
    /\ scans = <<NotScanned>>
    /\ tool_calls = <<>>
    /\ agent_ready = TRUE
    /\ is_processing = FALSE
    /\ is_streaming = FALSE
    /\ error_message = <<>>
    /\ title_set = FALSE
    /\ session_store \in BOOLEAN
    /\ memory_manager \in BOOLEAN
    /\ memory_manager => session_store
    /\ last_extracted_index = 0
    /\ meta = [title |-> <<"N">>, preview |-> <<>>, message_count |-> 0]
    /\ thread = <<>>
    /\ events = <<>>
    /\ raised = FALSE
    /\ lastCall = [accepted |-> FALSE, fault |-> "none"]
    /\ streamed = 0
    /\ turns = 0
    /\ settings = DefaultSettings
    /\ use_redis = session_store
    /\ use_long_term = memory_manager
    /\ model = ReadyAgent.model
    /\ model_key = ModelKey(DefaultSettings)
    /\ checkpointer = 1
    /\ mcp_client = 1
    /\ mcp_connected = TRUE
    /\ available_tools = 1
    /\ agent = ReadyAgent
    /\ open_connections = {1}
    /\ created = [models |-> 1, checkpointers |-> 1, clients |-> 1]
    /\ built = {ReadyAgent}
    /\ init = [p \in Callers |-> IdleCall]
    /\ life_last = [op |-> "initialize", result |-> "ok", before |-> NoAgent]
    \* the initialize() call that made the controller ready has been counted
    /\ calls = MaxCalls - 1
    /\ transport = "http"
    /\ server_url = TRUE
    /\ ConnIdle
    /\ backend = "redis"
    /\ StoreIdle
    /\ ThreadsIdle
    /\ manager_last = NoManagerCall
    /\ generator = NoGenerator

TurnNext ==
    \/ send_message
    \/ clear_messages
    \/ cleanup

SpecTurn == TurnInit /\ [][TurnNext]_vars

(***************************************************************************)
(* SpecStream: send_message as the async generator it is.  The caller gets *)
(* each event at a yield, where the generator stays suspended until the    *)
(* caller asks for the next event or closes it.  The events before the     *)
(* assistant_message are taken as consumed at once; the generator is       *)
(* followed from the yield of the assistant_message (line 519) on.         *)
(***************************************************************************)

\* lines 444-519: the call and the caller's iteration up to the yield of the
\* assistant_message event
SendYieldsAssistant(content, trace) ==
    LET text == Strip(content)
        st == Streamed(text, trace)
    IN
    /\ generator.pc # "terminal"
    /\ text # <<>>
    /\ agent_ready
    /\ turns + streamed + 1 + Len(trace) <= MaxSteps
    /\ turns' = turns + 1
    /\ streamed' = streamed + Len(trace)
    /\ messages' = Append(WithUser(text), Message("assistant", st.content))
    /\ scans' = ScansAfterSummary \o <<NotScanned, NotScanned>>
    /\ events' = Append(st.events, Event("assistant_message", st.content, 0, ""))
    /\ tool_calls' = st.tool_calls
    /\ thread' = Invoked(text, trace)
    /\ meta' = TitleWritten(text)
    /\ title_set' = (title_set \/ session_store)
    /\ is_streaming' = TRUE
    /\ is_processing' = TRUE
    /\ raised' = FALSE
    /\ lastCall' = [accepted |-> TRUE, fault |-> "none"]
    /\ generator' = [pc |-> "terminal", content |-> st.content]
    /\ UNCHANGED <<agent_ready, session_store, memory_manager, error_message,
                   last_extracted_index>>

\* the caller asks for the next event: lines 521-530 run, then the finally
\* block, and the iteration ends; a failing update_session goes through the
\* except block (532-537) and yields an error event first
SendResumed(fault) ==
    LET extracts == memory_manager /\ should_extract(messages, last_extracted_index) IN
    /\ generator.pc = "terminal"
    /\ fault = "update" => session_store
    /\ fault = "extract" => extracts
    /\ meta' = IF session_store /\ fault # "update"
               THEN [meta EXCEPT !.preview = Take(generator.content, PreviewLen),
                                 !.message_count = Len(messages)]
               ELSE meta
    /\ messages' = IF fault = "update" THEN Append(messages, ErrorMessage) ELSE messages
    /\ events' = IF fault = "update" THEN Append(events, ErrorEvent) ELSE events
    /\ error_message' = IF fault = "update" THEN ErrText ELSE error_message
    /\ scans' = IF fault = "update" THEN Append(scans, NotScanned)
                ELSE IF extracts THEN Scan(scans, last_extracted_index, fault # "extract")
                ELSE scans
    /\ last_extracted_index' =
           IF extracts /\ fault = "none"
           THEN extract_incremental(messages, last_extracted_index)
           ELSE last_extracted_index
    /\ is_streaming' = FALSE
    /\ is_processing' = FALSE
    /\ lastCall' = [accepted |-> TRUE, fault |-> fault]
    /\ generator' = [generator EXCEPT !.pc = "exhausted"]
    /\ UNCHANGED <<tool_calls, agent_ready, title_set, session_store, memory_manager,
                   thread, raised, streamed, turns>>

\* the caller closes the generator instead (aclose(), or the finalizer of a
\* generator the caller dropped): GeneratorExit is raised at line 519, the
\* except Exception block does not catch it, the finally block runs
SendClosed ==
    /\ generator.pc = "terminal"
    /\ is_streaming' = FALSE
    /\ is_processing' = FALSE
    /\ generator' = [generator EXCEPT !.pc = "closed"]
    /\ UNCHANGED <<messages, scans, tool_calls, agent_ready, error_message, title_set,
                   session_store, memory_manager, last_extracted_index, meta, thread,
                   events, raised, lastCall, streamed, turns>>

streamFrame == <<lifeVars, connVars, storeVars, threadVars, manager_last>>

send_message_stream ==
    \/ \E content \in { Strip(given) : given \in UserTexts },
          trace \in Traces(MaxSteps - turns - streamed - 1) :
           SendYieldsAssistant(content, trace) /\ UNCHANGED streamFrame
    \/ \E fault \in {"none", "update", "extract"} :
           SendResumed(fault) /\ UNCHANGED streamFrame
    \/ SendClosed /\ UNCHANGED streamFrame

SpecStream == TurnInit /\ [][send_message_stream]_vars

(***************************************************************************)
(* SpecSession: one session over several controllers.  The controller is   *)
(* used for turns and cleaned up; the user renames the session from the    *)
(* session list; a new controller is constructed with the same session id  *)
(* and initialized, which finds the session in the store and resumes it.   *)
(* The record of the session (meta) and its thread in the checkpointer     *)
(* outlive the controllers.                                                *)
(***************************************************************************)

\* SessionStore.rename_session (store.py:243-254), called by
\* MultiSessionState.rename_session with a store of its own
rename_session(title) ==
    /\ use_redis
    /\ meta.title # title
    /\ meta' = [meta EXCEPT !.title = title]
    /\ UNCHANGED <<messages, scans, tool_calls, agent_ready, is_processing, is_streaming,
                   error_message, title_set, session_store, memory_manager,
                   last_extracted_index, thread, events, raised, lastCall,
                   streamed, turns>>
    /\ UNCHANGED <<lifeVars, connVars, storeVars, threadVars, manager_last, generator>>

\* AgentSession(session_id=...) and initialize() on a session the store holds
\* (lines 94-115, 120-164): _restore_messages_from_checkpointer returns True
\* exactly if it rebuilt messages; readFails: aget_tuple raised, which the
\* except block of lines 327-328 turns into False
resume_session(readFails) ==
    LET restored == ~readFails /\ Restore(thread) # <<>> IN
    /\ use_redis
    /\ messages' = IF restored THEN Restore(thread) ELSE Welcome(FALSE)
    /\ scans' = Unscanned(messages')
    /\ tool_calls' = <<>>
    /\ agent_ready' = TRUE
    /\ is_processing' = FALSE
    /\ is_streaming' = FALSE
    /\ error_message' = <<>>
    /\ title_set' = restored
    /\ session_store' = TRUE
    /\ memory_manager' = use_long_term
    /\ last_extracted_index' = 0
    /\ events' = <<>>
    /\ raised' = FALSE
    /\ lastCall' = [accepted |-> FALSE, fault |-> "none"]
    /\ settings' = DefaultSettings
    /\ model' = ReadyAgent.model
    /\ model_key' = ModelKey(DefaultSettings)
    /\ checkpointer' = 1
    /\ mcp_client' = 1
    /\ mcp_connected' = TRUE
    /\ available_tools' = 1
    /\ agent' = ReadyAgent
    /\ open_connections' = {1}
    /\ life_last' = [op |-> "initialize", result |-> "ok", before |-> NoAgent]
    /\ UNCHANGED <<meta, thread, streamed, turns, use_redis, use_long_term,
                   created, built, init, calls>>
    /\ UNCHANGED <<connVars, storeVars, threadVars, manager_last, generator>>

SessionNext ==
    \/ send_message
    \/ cleanup
    \/ rename_session(<<"R">>)
    \/ \E readFails \in BOOLEAN : resume_session(readFails)

SpecSession == TurnInit /\ [][SessionNext]_vars

(***************************************************************************)
(* SpecLife: one controller from its construction, under each storage      *)
(* configuration, driven by initialize, update_settings and cleanup calls. *)
(***************************************************************************)
LifeInit ==
    /\ messages = <<>>
    /\ scans = <<>>
    /\ tool_calls = <<>>
    /\ agent_ready = FALSE
    /\ is_processing = FALSE
    /\ is_streaming = FALSE
    /\ error_message = <<>>
    /\ title_set = FALSE
    /\ session_store = FALSE
    /\ memory_manager = FALSE
    /\ last_extracted_index = 0
    /\ meta = [title |-> <<"N">>, preview |-> <<>>, message_count |-> 0]
    /\ thread = <<>>
    /\ events = <<>>
    /\ raised = FALSE
    /\ lastCall = [accepted |-> FALSE, fault |-> "none"]
    /\ streamed = 0
    /\ turns = 0
    /\ settings = DefaultSettings
    /\ use_redis \in BOOLEAN
    /\ use_long_term \in BOOLEAN
    /\ use_long_term => use_redis
    /\ model = NoModel
    /\ model_key = <<>>
    /\ checkpointer = 0
    /\ mcp_client = 0
    /\ mcp_connected = FALSE
    /\ available_tools = 0
    /\ agent = NoAgent
    /\ open_connections = {}
    /\ created = [models |-> 0, checkpointers |-> 0, clients |-> 0]
    /\ built = {}
    /\ init = [p \in Callers |-> IdleCall]
    /\ life_last = [op |-> "none", result |-> "ok", before |-> NoAgent]
    /\ calls = 0
    /\ transport = "http"
    /\ server_url = TRUE
    /\ ConnIdle
    /\ backend = "redis"
    /\ StoreIdle
    /\ ThreadsIdle
    /\ manager_last = NoManagerCall
    /\ generator = NoGenerator

LifeNext ==
    \/ initialize
    \/ \E ch \in Changes : update_settings(ch)
    \/ cleanup

SpecLife == LifeInit /\ [][LifeNext]_vars

(***************************************************************************)
(* SpecConn: one MCPClient from its construction, under each transport     *)
(* configuration, with connect() and disconnect() calls that may overlap.  *)
(***************************************************************************)
\* a controller that was constructed and never initialized
ControllerIdle ==
    /\ messages = <<>>
    /\ scans = <<>>
    /\ tool_calls = <<>>
    /\ agent_ready = FALSE
    /\ is_processing = FALSE
    /\ is_streaming = FALSE
    /\ error_message = <<>>
    /\ title_set = FALSE
    /\ session_store = FALSE
    /\ memory_manager = FALSE
    /\ last_extracted_index = 0
    /\ meta = [title |-> <<"N">>, preview |-> <<>>, message_count |-> 0]
    /\ thread = <<>>
    /\ events = <<>>
    /\ raised = FALSE
    /\ lastCall = [accepted |-> FALSE, fault |-> "none"]
    /\ streamed = 0
    /\ turns = 0
    /\ settings = DefaultSettings
    /\ use_redis = FALSE
    /\ use_long_term = FALSE
    /\ model = NoModel
    /\ model_key = <<>>
    /\ checkpointer = 0
    /\ mcp_client = 0
    /\ mcp_connected = FALSE
    /\ available_tools = 0
    /\ agent = NoAgent
    /\ open_connections = {}
    /\ created = [models |-> 0, checkpointers |-> 0, clients |-> 0]
    /\ built = {}
    /\ init = [p \in Callers |-> IdleCall]
    /\ life_last = [op |-> "none", result |-> "ok", before |-> NoAgent]
    /\ calls = 0

ConnInit ==
    /\ ControllerIdle
    /\ transport \in {"stdio", "http"}
    /\ server_url \in BOOLEAN
    /\ ConnIdle
    /\ backend = "redis"
    /\ StoreIdle
    /\ ThreadsIdle
    /\ manager_last = NoManagerCall
    /\ generator = NoGenerator

ConnNext ==
    \/ connect
    \/ run_connection
    \/ \E g \in TaskIds : ConnectWakes(g)
    \/ disconnect
    \/ call_tool

SpecConn == ConnInit /\ [][ConnNext]_vars

\* the event loop resumes a task whose stop event has been set, and a
\* disconnect() that waits in wait_for: when the task has ended, and when the
\* timer of the timeout fires; nothing makes a handshake complete or a caller
\* call
SpecConnLive ==
    /\ SpecConn
    /\ WF_vars(\E g \in TaskIds :
                   TaskStops(g) /\ UNCHANGED <<turnVars, lifeVars, storeVars, threadVars, manager_last, generator>>)
    /\ WF_vars(DisconnectTaskEnded /\ UNCHANGED <<turnVars, lifeVars, storeVars, threadVars, manager_last, generator>>)
    /\ WF_vars(DisconnectTimeout /\ UNCHANGED <<turnVars, lifeVars, storeVars, threadVars, manager_last, generator>>)

(***************************************************************************)
(* SpecStore: one user's session metadata in an empty database, on each    *)
(* backend, with calls of two store instances that may overlap, and on     *)
(* both backends side by side, given the same calls one after the other.   *)
(***************************************************************************)
StoreInit ==
    /\ ControllerIdle
    /\ transport = "http"
    /\ server_url = TRUE
    /\ ConnIdle
    /\ backend \in {"redis", "file", "both"}
    /\ StoreIdle
    /\ ThreadsIdle
    /\ manager_last = NoManagerCall
    /\ generator = NoGenerator

StoreNext ==
    \/ redis_store
    \/ file_store
    \/ both_stores

SpecStore == StoreInit /\ [][StoreNext]_vars

(***************************************************************************)
(* SpecManager: an initialized MemoryManager and the message list of its   *)
(* caller, from the empty list.                                            *)
(***************************************************************************)
ManagerInit ==
    /\ ControllerIdle
    /\ transport = "http"
    /\ server_url = TRUE
    /\ ConnIdle
    /\ backend = "redis"
    /\ StoreIdle
    /\ ThreadsIdle
    /\ manager_last = NoManagerCall
    /\ generator = NoGenerator

ManagerNext == memory_manager_calls

SpecManager == ManagerInit /\ [][ManagerNext]_vars

(***************************************************************************)
(* SpecThreads: runs of one agent under two thread ids.                    *)
(***************************************************************************)
ThreadsInit ==
    /\ ControllerIdle
    /\ transport = "http"
    /\ server_url = TRUE
    /\ ConnIdle
    /\ backend = "redis"
    /\ StoreIdle
    /\ ThreadsIdle
    /\ manager_last = NoManagerCall
    /\ generator = NoGenerator

ThreadsNext ==
    \E tid \in ThreadIds, trace \in ThreadTraces :
        \E text \in ThreadTexts[tid] :
            /\ thread_turn(tid, text, trace)
            /\ UNCHANGED <<turnVars, lifeVars, connVars, storeVars, manager_last, generator>>

SpecThreads == ThreadsInit /\ [][ThreadsNext]_vars

(***************************************************************************)
(* SpecResume: a controller's _init_session_store calls on a Redis         *)
(* database that another store instance of the same user works on.         *)
(***************************************************************************)
ResumeInit ==
    /\ ControllerIdle
    /\ transport = "http"
    /\ server_url = TRUE
    /\ ConnIdle
    /\ backend = "redis"
    /\ StoreIdle
    /\ ThreadsIdle
    /\ manager_last = NoManagerCall
    /\ generator = NoGenerator

ResumeNext ==
    \/ init_session_store
    \/ OtherClient /\ UNCHANGED resumeFrame

SpecResume == ResumeInit /\ [][ResumeNext]_vars

(***************************************************************************)
(* Claims about send_message and the extraction watermark (SpecTurn).      *)
(***************************************************************************)
EventIdx(t) == { i \in 1..Len(events) : events[i].type = t }

RECURSIVE TokenConcat(_)
TokenConcat(evs) ==
    IF evs = <<>> THEN <<>>
    ELSE (IF Head(evs).type = "token" THEN Head(evs).content ELSE <<>>)
             \o TokenConcat(Tail(evs))

\* C1: while the controller holds its memory manager, the extraction
\* watermark never decreases and never exceeds the length of the message list
C1_WatermarkBounded ==
    [][(memory_manager /\ memory_manager') =>
          /\ last_extracted_index' >= last_extracted_index
          /\ last_extracted_index' <= Len(messages')]_vars

\* C5: an accepted turn in which the summarization model call or the agent's
\* stream raised ends with exactly one error event, emitted last, an assistant
\* message recording the error, no escaping exception, and a ready, idle
\* controller
C5_TurnErrorRecovered ==
    (lastCall.accepted /\ lastCall.fault \in {"summarize", "stream"}) =>
        /\ ~raised
        /\ events # <<>>
        /\ events[Len(events)].type = "error"
        /\ Cardinality(EventIdx("error")) = 1
        /\ messages # <<>>
        /\ messages[Len(messages)] = ErrorMessage
        /\ agent_ready /\ ~is_processing /\ ~is_streaming

\* C6: a failing metadata write (title, post-turn update) or a failing
\* incremental extraction is only logged: no error event, no error message in
\* the history, no escaping exception, assistant_message is the last event
C6_MaintenanceFailureSilent ==
    (lastCall.accepted /\ lastCall.fault \in {"title", "update", "extract"}) =>
        /\ ~raised
        /\ EventIdx("error") = {}
        /\ events # <<>>
        /\ events[Len(events)].type = "assistant_message"
        /\ messages # <<>>
        /\ messages[Len(messages)] # ErrorMessage

\* C7: the events of an accepted turn that completes without an exception
\* are: at most one system event, one user_message, then token / tool_start /
\* tool_end events, then one assistant_message, the last event, whose content
\* is the concatenation of the turn's token contents in emission order
C7_EventStreamShape ==
    (lastCall.accepted /\ lastCall.fault \in {"none", "extract"}) =>
        LET n == Len(events)
            sys == Cardinality(EventIdx("system"))
        IN  /\ ~raised
            /\ sys <= 1
            /\ n >= sys + 2
            /\ sys = 1 => events[1].type = "system"
            /\ events[sys + 1].type = "user_message"
            /\ \A i \in (sys + 2)..(n - 1) :
                   events[i].type \in {"token", "tool_start", "tool_end"}
            /\ events[n].type = "assistant_message"
            /\ events[n].content = TokenConcat(events)

\* C7 witness: a completed turn whose stream interleaved a tool call's start,
\* a token and the tool call's end
C7_Witness ==
    /\ lastCall.accepted /\ lastCall.fault = "none"
    /\ \E i, j, k \in 1..Len(events) :
           /\ i < j /\ j < k
           /\ events[i].type = "tool_start"
           /\ events[j].type = "token"
           /\ events[k].type = "tool_end"

(***************************************************************************)
(* Claims about the controller lifecycle (SpecLife).                       *)
(***************************************************************************)
\* C2: after an update_settings call that changed the model key of a ready
\* controller and reported a rebuild, the agent in use is built around a model
\* created from the new key, not the model of the agent it replaces, while its
\* checkpointer and its tool connection are those of the agent it replaces
C2_RebuildUsesNewModel ==
    (life_last.op = "update_settings" /\ life_last.result = "rebuilt") =>
        /\ agent.model.key = ModelKey(settings)
        /\ agent.model.id # life_last.before.model.id
        /\ agent.checkpointer = life_last.before.checkpointer
        /\ agent.client = life_last.before.client

\* the (provider, model_name, temperature) tuple of the settings; Python
\* compares the numbers, so the int 0 equals the float 0.0
ModelTuple(s) == <<s.provider, s.model_name, s.temperature.tenths>>

\* C20: update_settings reports a rebuild if and only if the (provider,
\* model_name, temperature) tuple after the changes differs from the tuple
\* before (so a change to another field never rebuilds), and the same call
\* made again right after an update_settings call reports no rebuild and
\* leaves the agent and the checkpointer as they are
C20_RebuildIffKeyChanged ==
    [][\A ch \in Changes :
           update_settings(ch) =>
               /\ life_last'.result = "rebuilt"
                      <=> ModelTuple(settings') # ModelTuple(settings)
               /\ (life_last.op = "update_settings"
                       /\ ApplyChange(settings, ch) = settings) =>
                      /\ life_last'.result = "kept"
                      /\ agent' = agent
                      /\ checkpointer' = checkpointer]_vars

\* C9: over any interleaving of initialize, update_settings and cleanup calls
\* the controller constructs at most one checkpointer, and every agent it has
\* built uses that checkpointer
C9_CheckpointerCreatedOnce ==
    /\ created.checkpointers <= 1
    /\ \A a \in built : a.checkpointer = checkpointer

\* C10: the controller holds at most one open tool connection, the one of its
\* current client, and the tools it exposes and the tools of its agent come
\* from that client
C10_SingleOpenConnection ==
    /\ Cardinality(open_connections) <= 1
    /\ agent_ready =>
           /\ open_connections = {mcp_client}
           /\ agent.client = mcp_client
           /\ available_tools = mcp_client

(***************************************************************************)
(* Claims about the MCP client (SpecConn).                                 *)
(***************************************************************************)
\* C3: however the background task of a connect() call has ended, the ready
\* event that the call waits on has been fired, so the call is not left
\* waiting
C3_ReadyFiredWhenTaskEnds ==
    \A g \in TaskIds :
        task[g].pc \in {"done", "crashed", "cancelled"} =>
            (g \in ready_set /\ waiter[g].pc # "none")

\* a disconnect() call returns or raises in this step
DisconnectEnds ==
    /\ DisconnectCall \/ DisconnectTaskEnded \/ DisconnectTimeout
    /\ disc'.pc = "idle"

\* C21: disconnect() always eventually returns, also when the handshake never
\* completes (the wait for the task ends with the task or with the timeout,
\* which cancels the task), and when it returns it has raised nothing, the
\* background task has ended and the client holds no session, no tools, no
\* task and no events
C21_DisconnectReturns ==
    /\ [][DisconnectEnds =>
             /\ disc'.result = "ok"
             /\ connection_task # 0 =>
                    task'[connection_task].pc \in {"done", "cancelled"}
             /\ session' = 0
             /\ client_tools' = <<>>
             /\ connection_task' = 0
             /\ stop_event' = 0
             /\ ready_event' = 0]_vars
    /\ (disc.pc = "waiting") ~> (disc.pc = "idle")

\* a disconnect() has returned that cancelled a task whose handshake had not
\* completed, the connect() call of that task still waiting
C21_Witness ==
    /\ disc = [IdleDisconnect EXCEPT !.result = "ok"]
    /\ connection_task = 0
    /\ \E g \in TaskIds : task[g].pc = "cancelled" /\ waiter[g].pc = "waiting"

\* the task of connect() call g ended in the except block of
\* _run_connection: opening the transport or the handshake raised
HandshakeRaised(g) ==
    /\ task[g].pc \in {"done", "crashed"}
    /\ task[g].stop = 0

\* C22: when the handshake raises, the error does not escape the background
\* task, the ready event is fired and the connect() call that started the
\* task raises the error (it does not return tools), and no disconnect()
\* raises
C22_HandshakeErrorSurfaces ==
    \A g \in TaskIds :
        HandshakeRaised(g) =>
            /\ task[g].pc = "done"
            /\ g \in ready_set
            /\ waiter[g].pc \in {"waiting", "raised"}
            /\ disc.result # "raised"

\* C23: a call_tool made before any connect(), or after a disconnect() has
\* returned and before the next connect() (the client holds no connection
\* task then), fails with the not-connected error and sends nothing to the
\* server, after any number of connect/disconnect cycles
C23_CallToolNeedsConnection ==
    called.task = 0 => called.result # "sent"

\* a call_tool was refused on a client that had been connected, its connect()
\* having returned the tools, and disconnected again
C23_Witness ==
    /\ called.result = "not_connected"
    /\ called.task = 0
    /\ called.connects > 0
    /\ waiter[called.connects].pc = "returned"

(***************************************************************************)
(* Claims about the session metadata stores (SpecStore).                   *)
(***************************************************************************)
\* the value update_session writes into field f
NewValue(f) ==
    IF f = "title" THEN UpdateValues.title
    ELSE IF f = "preview" THEN Take(UpdateValues.preview, PreviewLen)
    ELSE UpdateValues.message_count

FieldOf(md, f) ==
    IF f = "title" THEN md.title
    ELSE IF f = "preview" THEN md.preview
    ELSE md.message_count

\* C4: once every update_session call has completed, the record of a session
\* carries the new value of every field that a completed update set since
\* the record was created; no update reverts a field it did not set.
C4_ConcurrentUpdatesKeepFields ==
    Quiescent =>
        \A sid \in SessionIds :
            get_session(sid) # NoRecord =>
                \A f \in acked[sid] : FieldOf(get_session(sid), f) = NewValue(f)

\* the sessions that had a record before the last call, and what it left
SessionsBefore == {sid \in SessionIds : store_last.before[sid] # 0}

Excess ==
    IF Cardinality(SessionsBefore) > store_last.n
    THEN Cardinality(SessionsBefore) - store_last.n ELSE 0

Deleted == Range(store_last.result)

Survivors == SessionsBefore \ Deleted

\* C8: an enforce_session_limit(N) call that ran without another call beside
\* it on a store holding c sessions deleted exactly max(0, c - N) sessions,
\* the ones with the oldest updated_at, returned exactly their ids, left
\* get_session_count() <= N, and list_sessions returns the survivors sorted
\* by updated_at descending.
C8_EnforceDeletesOldest ==
    (store_last.op = "enforce_session_limit" /\ store_last.alone) =>
        /\ Len(store_last.result) = Excess
        /\ Cardinality(Deleted) = Excess
        /\ Deleted \subseteq SessionsBefore
        /\ \A d \in Deleted, k \in Survivors :
               store_last.before[d] <= store_last.before[k]
        /\ \A d \in Deleted : get_session(d) = NoRecord
        /\ \A k \in Survivors : get_session(k).updated_at = store_last.before[k]
        /\ get_session_count <= store_last.n
        /\ LET listed == list_sessions(DefaultLimit) IN
               /\ Len(listed) = Cardinality(Survivors)
               /\ {listed[i].session_id : i \in 1..Len(listed)} = Survivors
               /\ \A i \in 1..Len(listed) - 1 :
                      listed[i].updated_at >= listed[i + 1].updated_at

\* the user messages of a history, by role
UserCount(ms) == Cardinality({i \in DOMAIN ms : ms[i].role = "user"})

HumanCount(stored) == Cardinality({i \in DOMAIN stored : stored[i].type = "human"})

\* a turn in which summarization collapsed older messages and the agent ran
SummarizedTurn ==
    /\ turns' = turns + 1
    /\ CheckContextLimit
    /\ Len(messages) > KeepRecent
    /\ lastCall'.fault \notin {"summarize", "title"}

\* C11: in a turn that summarized, the history submitted to the model (the
\* thread's messages and the new user message) holds no more user messages
\* than the trimmed history the controller keeps (summary, kept tail, the
\* new user message): no collapsed older user message is submitted
C11_SubmittedHistoryTrimmed ==
    [][SummarizedTurn =>
          HumanCount(SubSeq(thread', 1, Len(thread) + 1))
              <= UserCount(SubSeq(messages', 1, Len(AfterSummary) + 1))]_vars

\* a turn of a controller with a durable checkpointer that ran to its
\* assistant_message without a failure and with a reply that is not empty
TurnCompleted ==
    /\ turns' = turns + 1
    /\ session_store
    /\ lastCall'.fault = "none"
    /\ messages'[Len(messages')].content # <<>>

\* C12: what a second controller restores from the thread for a completed
\* turn equals, by role and content, the user and assistant messages that
\* the turn appended to the first controller's history, tool turns included
C12_RestoreEqualsProduced ==
    [][TurnCompleted =>
          Restore(From(thread', Len(thread))) = LastN(messages', 2)]_vars

TeardownExtracted ==
    /\ memory_manager /\ ~memory_manager'
    /\ messages # <<>>
    /\ last_extracted_index' >= Len(messages)

\* C14: when cleanup's teardown extraction completes without error, every
\* user message of the history has been in some extraction batch
C14_TeardownCoversHistory ==
    [][TeardownExtracted =>
          \A i \in DOMAIN messages' :
              messages'[i].role = "user" => scans'[i].sent >= 1]_vars

\* the turn's terminal event was emitted: assistant_message or error
TerminalEmitted ==
    /\ lastCall.accepted
    /\ events # <<>>
    /\ events[Len(events)].type \in {"assistant_message", "error"}

\* C15: a tool run that started and failed (the stream carries no
\* on_tool_end for a run that raised) still gets its tool_end event, so that
\* at the turn's terminal event every tool_start is followed by a tool_end
\* of the same id and no record of the turn is pending or running
C15_NoToolCallLeftRunning ==
    TerminalEmitted =>
        /\ \A i \in EventIdx("tool_start") :
               \E j \in EventIdx("tool_end") : j > i /\ events[j].id = events[i].id
        /\ \A i \in DOMAIN tool_calls :
               tool_calls[i].status \notin {"pending", "running"}

\* the ids of the records that list_sessions returns, in order
ListedIds == [i \in DOMAIN list_sessions(DefaultLimit) |->
                 list_sessions(DefaultLimit)[i].session_id]

Recorded == {sid \in SessionIds : get_session(sid) # NoRecord}

\* C16: a session id has at most one metadata record: once no call is in
\* flight list_sessions holds each id at most once and get_session_count
\* counts the sessions that have a record, and no call (a create_session on
\* an id that exists in particular) changes created_at while the record
\* exists
C16_OneRecordPerSession ==
    [][/\ Quiescent' =>
             /\ \A i, j \in DOMAIN ListedIds' :
                    ListedIds'[i] = ListedIds'[j] => i = j
             /\ get_session_count' = Cardinality(Recorded')
       /\ \A sid \in Recorded \cap Recorded' :
              get_session(sid)'.created_at = get_session(sid).created_at]_vars

\* the ids of the per-user index, and the ids that have a metadata record
IndexIds ==
    IF backend = "redis" THEN Members(redis_index)
    ELSE {file_index[i].session_id : i \in DOMAIN file_index}

RecordIds ==
    IF backend = "redis" THEN {sid \in SessionIds : redis_data[sid] # NoRecord}
    ELSE file_sessions

\* C17: after the process stopped between two backend writes of a call, the
\* persisted state is consistent: the ids of the index are exactly the ids
\* that have a metadata record
C17_StoppedStateConsistent ==
    store_last.op = "stopped" => IndexIds = RecordIds

\* a list_sessions call returned that ran beside other calls, all of them
\* update_session or list_sessions calls
ListedBesideUpdates ==
    /\ store_last.op = "list_sessions"
    /\ ~store_last.alone
    /\ store_last.call.updates_only

\* the sessions that had an index entry and a record when the call began;
\* no call deleted one of them while it ran
ExistedThroughout ==
    {sid \in Range(store_last.call.ids) : store_last.before[sid] # 0}

ListedAt(sid) ==
    {i \in DOMAIN store_last.result : store_last.result[i].session_id = sid}

\* the results of get_session_count, session_exists, get_session and
\* list_sessions on the SessionStore
RedisResults ==
    [count |-> Cardinality(Members(redis_index)),
     exists |-> [sid \in SessionIds |-> redis_data[sid] # NoRecord],
     get |-> [sid \in SessionIds |-> Shown(redis_data[sid])],
     list |-> LET sessions ==
                      SortDesc(Fetch(redis_data,
                          Take(Reverse(ZRange(redis_index, Members(redis_index))),
                               DefaultLimit)))
              IN  [i \in DOMAIN sessions |-> Shown(sessions[i])]]

\* the results of the same calls on the FileSessionStore
FileResults ==
    [count |-> Len(file_index),
     exists |-> [sid \in SessionIds |-> sid \in file_sessions],
     get |-> [sid \in SessionIds |->
                 IF FirstEntry(file_index, sid, 1) = 0 THEN Shown(NoRecord)
                 ELSE Shown(file_index[FirstEntry(file_index, sid, 1)])],
     list |-> LET entries == Take(SortDesc(file_index), DefaultLimit)
              IN  [i \in DOMAIN entries |-> Shown(entries[i])]]

\* C19: for every sequence of calls by one user the two backends return the
\* same results at every step, timestamps aside: the call just made
\* returned the same on both, and get_session_count, session_exists,
\* get_session and list_sessions would return the same on both
C19_BackendsAgree ==
    backend = "both" =>
        /\ store_last.op = "both" => store_last.result[1] = store_last.result[2]
        /\ RedisResults = FileResults

C25_CleanupBestEffort ==
    [][cleanup => /\ life_last'.result = "ok"
                  /\ ~agent_ready' /\ ~mcp_connected'
                  /\ mcp_client' = 0 /\ agent' = NoAgent
                  /\ ~memory_manager' /\ ~session_store'
                  /\ life_last'.skipped = {}]_vars

\* a cleanup whose three steps were all due and whose flush failed (the
\* batch was sent and not completed)
C25_Witness ==
    /\ life_last.op = "cleanup"
    /\ life_last.result = "ok"
    /\ life_last.skipped = {}
    /\ \E i \in DOMAIN scans : scans[i].sent > scans[i].done
    /\ life_last.before.client # 0
    /\ use_redis
    /\ ~agent_ready /\ mcp_client = 0 /\ ~session_store

\* the initialize call of p ends with an exception in this step
InitializeRaised(p) ==
    /\ init[p].pc # "idle"
    /\ init'[p].pc = "idle"
    /\ life_last'.op = "initialize"
    /\ life_last'.result = "raised"

\* the initialize call of p builds the agent in this step: its connect has
\* returned, and so have its session store calls if a store is configured
\* and its memory manager calls if long-term memory is
InitializeBuilt(p) ==
    /\ init[p].pc \in {"connect", "store", "memory", "checkpointer"}
    /\ init[p].pc = "connect" => ~use_redis
    /\ init[p].pc = "store" => ~use_long_term
    /\ init'[p].pc \in {"idle", "restore"}
    /\ ~InitializeRaised(p)
    /\ agent' \in built'
    /\ agent'.client = mcp_client

\* C27: agent_ready becomes true only when an initialize call whose connect,
\* store calls and memory manager calls have returned builds the agent (a
\* rebuild by update_settings needs a ready controller); an initialize call
\* that raises leaves the controller not ready, not connected, with
\* error_message set and is_processing false; cleanup leaves it not ready.
C27_ReadyOnlyAfterInitialize ==
    [][/\ (agent_ready' /\ ~agent_ready) => \E p \in Callers : InitializeBuilt(p)
       /\ \A p \in Callers :
              InitializeRaised(p) => /\ ~agent_ready'
                                     /\ ~mcp_connected'
                                     /\ error_message' # <<>>
                                     /\ ~is_processing'
       /\ cleanup => ~agent_ready']_vars

\* an initialize call has raised after its connect and its store calls had
\* returned
C27_Witness ==
    /\ life_last.op = "initialize"
    /\ life_last.result = "raised"
    /\ session_store
    /\ open_connections # {}
    /\ ~agent_ready /\ ~mcp_connected /\ error_message = ErrText

(***************************************************************************)
(* Claims about the MemoryManager called directly (SpecManager).           *)
(***************************************************************************)
\* C28: summarize_and_trim(messages, keep_recent = k) that returns gives,
\* for n <= k messages, the input with an empty summary and no model call,
\* and otherwise k + 1 messages: the summary message, then the last k
\* messages of the input in their order.
C28_SummarizeKeepsLastK ==
    LET n == Len(manager_last.input)
        k == manager_last.keep_recent
        out == manager_last.output
    IN
    (manager_last.op = "summarize_and_trim" /\ manager_last.result = "ok") =>
        IF n <= k
        THEN /\ out = manager_last.input
             /\ manager_last.summary = <<>>
             /\ manager_last.model_calls = 0
        ELSE /\ Len(out) = k + 1
             /\ out[1].role = "assistant"
             /\ SubSeq(out, 2, k + 1) = SubSeq(manager_last.input, n - k + 1, n)

\* the messages of the call's list that the watermark has not passed
Unseen == Len(From(manager_last.input, manager_last.wm))

\* the call made no model call, stored nothing and left the watermark
NoExtraction ==
    /\ manager_last.model_calls = 0
    /\ manager_last.stored = 0
    /\ last_extracted_index = manager_last.wm

HumanTexts(ms) == { ms[i].str : i \in { j \in 1..Len(ms) : ms[j].type = "human" } }

\* C26: with one checkpointer used under several thread ids, a run under a
\* thread id is given that thread's stored messages and the new message,
\* none of them a message of another thread, and writes to that thread only.
C26_ThreadIsolation ==
    /\ [][supplied'.n # supplied.n =>
              /\ supplied'.msgs = Append(saver[supplied'.tid],
                                         ThreadMessage("human", supplied'.text, <<>>))
              /\ \A o \in ThreadIds \ {supplied'.tid} : saver'[o] = saver[o]]_vars
    /\ [](\A tid \in ThreadIds :
              /\ HumanTexts(saver[tid]) \subseteq ThreadTexts[tid]
              /\ HumanTexts(supplied.msgs) \subseteq ThreadTexts[supplied.tid])

\* a run under thread "b" after thread "a" has messages
C26_Witness ==
    /\ supplied.tid = "b"
    /\ supplied.n > 0
    /\ Len(saver["a"]) >= 2
    /\ Len(saver["b"]) >= 2

(***************************************************************************)
(* Claims about the resume decision of initialize (SpecResume).            *)
(***************************************************************************)
\* the records and the index of the database differ from those at the start
\* of the call at most in the update time and the score of session sid
OnlyBumped(sid) ==
    /\ \A o \in SessionIds \ {sid} :
           /\ redis_data[o] = init_store.before.data[o]
           /\ redis_index[o] = init_store.before.index[o]
    /\ redis_data[sid] # NoRecord
    /\ [redis_data[sid] EXCEPT !.updated_at = 0]
           = [init_store.before.data[sid] EXCEPT !.updated_at = 0]
    /\ redis_data[sid].updated_at > init_store.before.data[sid].updated_at
    /\ redis_index[sid] > init_store.before.index[sid]

\* C24: _init_session_store returns "resuming" exactly when the store held
\* the session id when it was asked, whatever the checkpointer holds; on a
\* resume the only store method called is update_session, and a call that no
\* other client ran beside has changed nothing but the update time of the
\* session; otherwise create_session and then enforce_session_limit are
\* called, in this order.
C24_ResumeIffStoreHoldsSession ==
    init_store.pc = "returned" =>
        /\ init_store.result = init_store.held
        /\ init_store.held = (init_store.before.data[init_store.sid] # NoRecord)
        /\ init_store.result =>
               /\ init_store.calls = <<"update_session">>
               /\ init_store.alone => OnlyBumped(init_store.sid)
        /\ ~init_store.result =>
               init_store.calls = <<"create_session", "enforce_session_limit">>

\* a resume of a session whose thread the checkpointer holds nothing of,
\* with another session in the database and more sessions than the limit
C24_Witness ==
    /\ init_store.pc = "returned"
    /\ init_store.result
    /\ ~init_store.history
    /\ init_store.alone
    /\ init_store.max_sessions = 0
    /\ \E o \in SessionIds \ {init_store.sid} : redis_data[o] # NoRecord

\* ---------------------------------------------------------------------
\* C30: rejected send_message calls
\* ---------------------------------------------------------------------

\* everything the controller holds, the observation of the last call left out
ControllerState ==
    <<messages, scans, tool_calls, agent_ready, is_processing, is_streaming,
      error_message, title_set, session_store, memory_manager,
      last_extracted_index, meta, thread, streamed, turns,
      lifeVars, connVars, storeVars, threadVars, manager_last, generator>>

\* a step of a send_message call that was not accepted: cleanup counts itself
\* in calls, an accepted call counts itself in turns, and what clear_messages
\* does is known
RejectedSend ==
    /\ calls' = calls
    /\ turns' = turns
    /\ ~clear_messages

\* C30: a send_message call that is rejected, for blank text or for text that
\* is not blank on a controller that is not ready, leaves the message list,
\* the tool-call records, the flags, the metadata, the checkpoint and the
\* watermark as they were and raises nothing; the call the readiness guard
\* rejected was made on a controller that was not ready and yields exactly one
\* event, of type "error", every other rejected call yields no event; and a
\* call is accepted only on a ready controller, and the user message it
\* yields is not blank.
C30_RejectedSendChangesNothing ==
    [][/\ RejectedSend =>
              /\ ~lastCall'.accepted
              /\ UNCHANGED ControllerState
              /\ ~raised'
              /\ IF lastCall'.fault = "not_ready"
                 THEN /\ ~agent_ready
                      /\ Len(events') = 1
                      /\ events'[1].type = "error"
                 ELSE events' = <<>>
       /\ turns' # turns =>
              /\ agent_ready
              /\ lastCall'.accepted
              /\ events' # <<>> =>
                     \E i \in 1..Len(events') :
                         /\ events'[i].type = "user_message"
                         /\ events'[i].content # <<>>]_vars

\* a call with text that is not blank, rejected after cleanup on a controller
\* that holds messages, tool-call records and a thread
C30_Witness ==
    /\ lastCall = [accepted |-> FALSE, fault |-> "not_ready"]
    /\ ~agent_ready
    /\ Len(events) = 1
    /\ events[1].type = "error"
    /\ messages # <<>>
    /\ tool_calls # <<>>
    /\ thread # <<>>
    /\ life_last.op = "cleanup"

\* ---------------------------------------------------------------------
\* C31: the effects of a turn at its terminal event
\* ---------------------------------------------------------------------

\* the last event the caller has got from the call is the assistant_message
EndsWithAssistantMessage ==
    /\ lastCall.accepted
    /\ events # <<>>
    /\ events[Len(events)].type = "assistant_message"

\* C31: once the caller has got the assistant_message of a turn on a
\* controller with a metadata store, the session's record holds the first
\* PreviewLen characters of the assistant text as preview and the
\* controller's message count, and is_processing and is_streaming are false.
C31_TurnEffectsAtTerminalEvent ==
    (EndsWithAssistantMessage /\ session_store) =>
        /\ meta.preview = Take(events[Len(events)].content, PreviewLen)
        /\ meta.message_count = Len(messages)
        /\ ~is_processing
        /\ ~is_streaming

\* ---------------------------------------------------------------------
\* C32: the tool-call records of a turn
\* ---------------------------------------------------------------------

\* the ids of the tool_start events of evs, in emission order
RECURSIVE StartIds(_)
StartIds(evs) ==
    IF evs = <<>> THEN <<>>
    ELSE (IF Head(evs).type = "tool_start" THEN <<Head(evs).id>> ELSE <<>>)
             \o StartIds(Tail(evs))

\* the tool_end events that follow the start of record k and carry its id
EndsOf(k) ==
    { i \in EventIdx("tool_end") :
          /\ events[i].id = tool_calls[k].id
          /\ Len(StartIds(SubSeq(events, 1, i))) >= k }

\* C32: after an accepted send_message call the tool-call record list holds
\* exactly one record per tool_start event of the call, in emission order;
\* every tool_end event carries the id of a record started before it, and a
\* record is complete exactly when it is the first record with its id at a
\* tool_end event with that id, and running otherwise.
C32_OneRecordPerToolStart ==
    lastCall.accepted =>
        /\ Len(tool_calls) = Len(StartIds(events))
        /\ \A k \in 1..Len(tool_calls) :
               /\ tool_calls[k].id = StartIds(events)[k]
               /\ tool_calls[k].status =
                      IF \E i \in EndsOf(k) :
                             FirstWithId(SubSeq(tool_calls, 1,
                                                Len(StartIds(SubSeq(events, 1, i)))),
                                         tool_calls[k].id, 1) = k
                      THEN "complete" ELSE "running"
               /\ tool_calls[k].output =
                      IF tool_calls[k].status = "complete" THEN "out" ELSE ""
        /\ \A i \in EventIdx("tool_end") :
               events[i].id \in Range(StartIds(SubSeq(events, 1, i)))

\* ---------------------------------------------------------------------
\* C33: the title is written on the first user message only
\* ---------------------------------------------------------------------

\* C33: an accepted send_message call changes the title of the session's
\* record only if it carries the first user message of the session, and the
\* title it writes is the title made of its text.
C33_TitleWrittenOnce ==
    [][(turns' = turns + 1 /\ meta'.title # meta.title) =>
           /\ turns = 0
           /\ \E given \in UserTexts : meta'.title = Title(Strip(given))]_vars

(***************************************************************************)
(* MemoryManager._extract_memories_from_messages (memory/manager.py        *)
(* 291-340): the reply of the extraction model is searched for a JSON      *)
(* array, the array is parsed, and its elements are stored.  A reply is    *)
(* modelled by its lexical tokens: "[" "]" "," as in the text, "c" an      *)
(* object with a content field, "o" an object without one, "v" a value     *)
(* that is no object and no array, "w" text that is no JSON, "D" an        *)
(* integer literal longer than the interpreter's digit limit.  The         *)
(* content of a reply is a str or a list of content blocks.                *)
(***************************************************************************)
MaxReply == 5          \* tokens in a reply
RecursionLimit == 2    \* nesting the parser's recursion takes, scaled down

JsonTokens == {"[", "]", ",", "c", "o", "v", "w", "D"}

ReplyTexts == UNION { [1..n -> JsonTokens] : n \in 0..MaxReply }

Replies == [kind : {"str", "blocks"}, text : ReplyTexts]

\* str.find(t) + 1: the first position of t in ts, 0 when there is none
Find(ts, t) ==
    IF \E i \in 1..Len(ts) : ts[i] = t
    THEN CHOOSE i \in 1..Len(ts) :
             ts[i] = t /\ \A j \in 1..(i - 1) : ts[j] # t
    ELSE 0

\* str.rfind(t) + 1: the last position of t in ts, 0 when there is none
RFind(ts, t) ==
    IF \E i \in 1..Len(ts) : ts[i] = t
    THEN CHOOSE i \in 1..Len(ts) :
             ts[i] = t /\ \A j \in (i + 1)..Len(ts) : ts[j] # t
    ELSE 0

Parsed(status, elems) == [status |-> status, elems |-> elems]

\* json.loads from token i on, inside an array at nesting depth; expect is
\* what the grammar allows next; elems are the elements of the outermost
\* array read so far ("a": an array).  The decoder reads from left to right
\* and raises at the first token it cannot take.
RECURSIVE JsonScan(_, _, _, _, _)
JsonScan(ts, i, depth, expect, elems) ==
    IF i > Len(ts) THEN Parsed("JSONDecodeError", <<>>)
    ELSE
    LET t == ts[i]
        value == expect \in {"value", "value_or_close"}
    IN
    IF t = "[" /\ value
    THEN IF depth + 1 > RecursionLimit
         THEN Parsed("RecursionError", <<>>)
         ELSE JsonScan(ts, i + 1, depth + 1, "value_or_close", elems)
    ELSE IF t = "D" /\ value
    THEN Parsed("ValueError", <<>>)
    ELSE IF t \in {"c", "o", "v"} /\ value
    THEN JsonScan(ts, i + 1, depth, "sep_or_close",
                  IF depth = 1 THEN Append(elems, t) ELSE elems)
    ELSE IF t = "," /\ expect = "sep_or_close"
    THEN JsonScan(ts, i + 1, depth, "value", elems)
    ELSE IF t = "]" /\ expect \in {"value_or_close", "sep_or_close"}
    THEN IF depth = 1
         THEN IF i = Len(ts) THEN Parsed("ok", elems)
              ELSE Parsed("JSONDecodeError", <<>>)
         ELSE JsonScan(ts, i + 1, depth - 1, "sep_or_close",
                       IF depth = 2 THEN Append(elems, "a") ELSE elems)
    ELSE Parsed("JSONDecodeError", <<>>)

\* json.loads(text) for a text that starts with "[" (line 318)
loads(ts) == JsonScan(ts, 2, 1, "value_or_close", <<>>)

\* the list `memories` of lines 314-324
Memories(ts) ==
    LET json_start == Find(ts, "[")
        json_end == RFind(ts, "]")
    IN IF json_start >= 1 /\ json_end > json_start
       THEN LET parsed == loads(SubSeq(ts, json_start, json_end))
            IN IF parsed.status = "JSONDecodeError" THEN Parsed("ok", <<>>)
               ELSE parsed
       ELSE Parsed("ok", <<>>)

\* isinstance(memory, dict) and "content" in memory (line 329)
IsMemory(memory) == memory = "c"

\* _extract_memories_from_messages with this reply of the model: what it
\* raises, the list it returns, and the number of store_memory calls
extract_memories_from_messages(reply) ==
    IF reply.kind # "str"
    THEN [result |-> "AttributeError", output |-> <<>>, stored |-> 0]
    ELSE LET memories == Memories(reply.text)
         IN IF memories.status # "ok"
            THEN [result |-> memories.status, output |-> <<>>, stored |-> 0]
            ELSE [result |-> "ok",
                  output |-> SelectSeq(memories.elems, IsMemory),
                  stored |-> Cardinality({ k \in 1..Len(memories.elems) :
                                               IsMemory(memories.elems[k]) })]

\* the model has replied to the extraction prompt (line 310)
ModelReplied(reply) ==
    [NoManagerCall EXCEPT !.op = "reply", !.input = reply, !.model_calls = 1]

\* the rest of _extract_memories_from_messages on an initialized manager,
\* lines 311-340
extract_memories_call ==
    LET done == extract_memories_from_messages(manager_last.input) IN
    /\ manager_last.op = "reply"
    /\ manager_last' =
           [manager_last EXCEPT
               !.op = "extract_memories",
               !.result = done.result,
               !.output = done.output,
               !.stored = done.stored]
    /\ UNCHANGED <<messages, last_extracted_index, managerFrame>>

ExtractInit ==
    /\ ControllerIdle
    /\ transport = "http"
    /\ server_url = TRUE
    /\ ConnIdle
    /\ backend = "redis"
    /\ StoreIdle
    /\ ThreadsIdle
    /\ manager_last \in { ModelReplied(reply) : reply \in Replies }
    /\ generator = NoGenerator

ExtractNext == extract_memories_call

SpecExtract == ExtractInit /\ [][ExtractNext]_vars

\* ---------------------------------------------------------------------
\* C34: an extraction reply without a parseable array stores nothing
\* ---------------------------------------------------------------------

\* TRUE iff some part of the text is an array the parser parses
ContainsArray(ts) ==
    \E i \in 1..Len(ts), j \in 1..Len(ts) :
        /\ i < j
        /\ ts[i] = "["
        /\ loads(SubSeq(ts, i, j)).status = "ok"

\* C34: when the reply of the extraction model contains no parseable JSON
\* array, the extraction raises nothing, stores nothing and returns the
\* empty list; and every record stored is an object with a content field,
\* stored once.
C34_UnparseableReplyStoresNothing ==
    manager_last.op = "extract_memories" =>
        /\ ~ContainsArray(manager_last.input.text) =>
               /\ manager_last.result = "ok"
               /\ manager_last.output = <<>>
               /\ manager_last.stored = 0
        /\ manager_last.result = "ok" =>
               /\ \A k \in 1..Len(manager_last.output) :
                      manager_last.output[k] = "c"
               /\ manager_last.stored = Len(manager_last.output)

\* ---------------------------------------------------------------------
\* C35: a deleted session stays absent until it is created again
\* ---------------------------------------------------------------------

\* session_exists(sid) is false, and sid is neither listed nor counted
Absent(sid) ==
    /\ backend # "file" => redis_data[sid] = NoRecord /\ redis_index[sid] = 0
    /\ backend # "redis" =>
           sid \notin file_sessions /\ FirstEntry(file_index, sid, 1) = 0

\* the step is the call of create_session(sid)
CreateCalled(sid) ==
    /\ opcount' = opcount + 1
    /\ \/ \E c \in StoreClients :
              /\ ops[c].kind = "idle"
              /\ ops'[c].kind = "create_session"
              /\ ops'[c].sid = sid
       \/ store_last'.op = "create_session" /\ store_last'.result = <<sid>>
       \/ store_last'.op = "both" /\ store_last'.call.kind = "create_session"

\* C35: a session that is absent (its delete_session or its eviction has
\* removed the record and the index entry) stays absent in every step that
\* is not a call of create_session for it, also with an update_session or
\* rename_session of it in flight.
C35_DeletedStaysAbsent ==
    [][\A sid \in SessionIds :
           (Absent(sid) /\ ~CreateCalled(sid)) => Absent(sid)']_vars

\* ---------------------------------------------------------------------
\* C36: a failed initialize does not keep its tool connection open
\* ---------------------------------------------------------------------

\* C36: when an initialize call raises, the connection of the client that
\* the call made is not open afterwards.
C36_FailedInitializeClosesConnection ==
    [][\A p \in Callers :
           InitializeRaised(p) => init[p].client \notin open_connections']_vars

\* ---------------------------------------------------------------------
\* C37: a client whose connect() raised is not connected
\* ---------------------------------------------------------------------

\* C37: after the latest connect() call of the client has raised, the client
\* holds no session handle and no tools, and call_tool fails with the
\* not-connected error.
C37_FailedConnectLeavesNoSession ==
    \A g \in TaskIds :
        (g = connects /\ waiter[g].pc = "raised") =>
            /\ session = 0
            /\ client_tools = <<>>
            /\ ToolResult(session) = "not_connected"

\* ---------------------------------------------------------------------
\* C38: a rebuild by update_settings changes only the model
\* ---------------------------------------------------------------------

\* the step is an update_settings call that rebuilds the agent
Rebuilt ==
    /\ calls' = calls + 1
    /\ life_last'.op = "update_settings"
    /\ life_last'.result = "rebuilt"

\* C38: the agent that update_settings rebuilds carries the memory context
\* and the tools (those of the same client) of the agent it replaces, and
\* the message list is unchanged.
C38_RebuildKeepsContextAndTools ==
    [][Rebuilt =>
           /\ agent'.context = agent.context
           /\ agent'.client = agent.client
           /\ messages' = messages]_vars

\* ---------------------------------------------------------------------
\* C39: the session that initialize creates is not evicted by its own
\* enforcement of the limit
\* ---------------------------------------------------------------------

\* the step in which the enforce_session_limit call of _init_session_store
\* returns, and _init_session_store with it
EnforceReturned ==
    /\ init_store.pc \in {"enforce", "enforce_session_limit"}
    /\ init_store'.pc = "returned"

\* C39: when _init_session_store has created the session and enforced a
\* limit of at least one session, the ids that its enforce_session_limit
\* call deleted do not include the session just created.
C39_NewSessionNotEvicted ==
    [][(EnforceReturned /\ init_store.max_sessions >= 1) =>
           init_store.sid \notin Range(store_last'.result)]_vars

(***************************************************************************)
(* The metadata stores of two users.  The user of a store is a setting of  *)
(* its process (config/settings.py:100), so that the stores of two users   *)
(* are the stores of two processes on one database or one directory.  The  *)
(* stores "A" and "B" are bound to the users UserOf.  Ids and keys are     *)
(* character sequences.  FileSessionStore: all users share the one index   *)
(* file, which _write_index reads and then rewrites (file_store.py         *)
(* 79-106); the calls are split at these two file operations, which is     *)
(* where the other process runs.  SessionStore: every command is on a key  *)
(* made from the user id (store.py 66-76); the calls are taken whole.      *)
(* An index entry carries the fields user_id, session_id, title and        *)
(* updated_at; the other fields are written and kept with them.            *)
(***************************************************************************)
UserOf == [A |-> <<"u">>, B |-> <<"u", "1">>]

UserSessionIds == {<<"1">>, <<"1", "1">>}

\* f"sessions:{self.user_id}:index"
IndexKey(user_id) == <<"sessions", ":">> \o user_id \o <<":", "index">>

\* f"sessions:{self.user_id}:{session_id}"
SessionKey(user_id, session_id) ==
    <<"sessions", ":">> \o user_id \o <<":">> \o session_id

\* self.sessions_dir / f"{session_id}.jsonl"
SessionFile(user_id, session_id) ==
    <<"sessions", "/">> \o user_id \o <<"/">> \o session_id \o <<".jsonl">>

RedisKeys ==
    { SessionKey(UserOf[c], sid) : c \in StoreClients, sid \in UserSessionIds }
        \cup { IndexKey(UserOf[c]) : c \in StoreClients }

NoEntry == [user_id |-> <<>>, session_id |-> <<>>, title |-> <<>>, updated_at |-> 0]

Entry(user_id, session_id, now) ==
    [user_id |-> user_id, session_id |-> session_id, title |-> NewChat,
     updated_at |-> now]

IdleUserOp ==
    [pc |-> "idle", kind |-> "idle", entries |-> <<>>, all_entries |-> <<>>,
     todo |-> <<>>]

\* _read_index: the entries of the index file whose user_id is the store's
RECURSIVE ReadIndex(_, _)
ReadIndex(index, user_id) ==
    IF index = <<>> THEN <<>>
    ELSE (IF Head(index).user_id = user_id THEN <<Head(index)>> ELSE <<>>)
             \o ReadIndex(Tail(index), user_id)

\* _write_index, lines 83-95: the entries of the index file of other users
RECURSIVE OtherUsers(_, _)
OtherUsers(index, user_id) ==
    IF index = <<>> THEN <<>>
    ELSE (IF Head(index).user_id # user_id THEN <<Head(index)>> ELSE <<>>)
             \o OtherUsers(Tail(index), user_id)

\* position of the first entry with this session id, 0 if there is none
RECURSIVE EntryOf(_, _, _)
EntryOf(entries, session_id, i) ==
    IF i > Len(entries) THEN 0
    ELSE IF entries[i].session_id = session_id THEN i
    ELSE EntryOf(entries, session_id, i + 1)

\* [e for e in entries if e.get("session_id") != session_id]
RECURSIVE NotSession(_, _)
NotSession(entries, session_id) ==
    IF entries = <<>> THEN <<>>
    ELSE (IF Head(entries).session_id # session_id THEN <<Head(entries)>>
          ELSE <<>>) \o NotSession(Tail(entries), session_id)

SessionIdsOf(entries) == [i \in DOMAIN entries |-> entries[i].session_id]

\* the store whose call took the last step
StepOf(c) == [NoLast EXCEPT !.op = "step", !.result = <<c>>]

\* store c starts a call
UserCall(c, be) ==
    /\ backend = be
    /\ ops[c].pc = "idle"
    /\ opcount < MaxOps
    /\ opcount' = opcount + 1
    /\ store_last' = StepOf(c)

\* FileSessionStore.create_session, lines 153-172, up to _write_index
FileUserCreate(c, sid) ==
    /\ UserCall(c, "file")
    /\ clock' = clock + 1
    /\ file_sessions' = file_sessions \cup {SessionFile(UserOf[c], sid)}
    /\ ops' = [ops EXCEPT ![c] =
                  [IdleUserOp EXCEPT
                      !.pc = "read_index", !.kind = "create_session",
                      !.entries = Append(ReadIndex(file_index, UserOf[c]),
                                         Entry(UserOf[c], sid, clock + 1))]]
    /\ UNCHANGED <<file_index, redis_data, redis_index>>

\* FileSessionStore.update_session and rename_session, lines 231-247, up to
\* _write_index
FileUserUpdate(c, sid) ==
    LET entries == ReadIndex(file_index, UserOf[c])
        i == EntryOf(entries, sid, 1)
    IN
    /\ UserCall(c, "file")
    /\ IF i = 0
       THEN UNCHANGED <<ops, clock>>
       ELSE /\ clock' = clock + 1
            /\ ops' = [ops EXCEPT ![c] =
                          [IdleUserOp EXCEPT
                              !.pc = "read_index", !.kind = "update_session",
                              !.entries =
                                  [entries EXCEPT ![i].title = UpdateValues.title,
                                                  ![i].updated_at = clock + 1]]]
    /\ UNCHANGED <<file_index, file_sessions, redis_data, redis_index>>

\* FileSessionStore.delete_session, enforce_session_limit (lines 364-380)
\* and delete_all_sessions (lines 393-399): the ids to delete
FileUserDeleteCalls(c, kind, todo) ==
    /\ UserCall(c, "file")
    /\ ops' = IF todo = <<>> THEN ops
              ELSE [ops EXCEPT ![c] = [IdleUserOp EXCEPT !.pc = "delete",
                                                        !.kind = kind,
                                                        !.todo = todo]]
    /\ UNCHANGED <<file_index, file_sessions, clock, redis_data, redis_index>>

\* the ids that enforce_session_limit deletes: the oldest first
FileOldest(entries, max_sessions) ==
    IF Len(entries) <= max_sessions THEN <<>>
    ELSE SessionIdsOf(Take(SortAsc(entries), Len(entries) - max_sessions))

\* delete_session, lines 304-310: the index is read
FileUserDeleteRead(c) ==
    LET entries == ReadIndex(file_index, UserOf[c])
        kept == NotSession(entries, Head(ops[c].todo))
    IN
    /\ ops[c].pc = "delete"
    /\ store_last' = StepOf(c)
    /\ ops' = IF Len(kept) # Len(entries)
              THEN [ops EXCEPT ![c].pc = "read_index", ![c].entries = kept]
              ELSE IF Tail(ops[c].todo) = <<>>
              THEN [ops EXCEPT ![c] = IdleUserOp]
              ELSE [ops EXCEPT ![c].todo = Tail(@)]
    /\ UNCHANGED <<file_index, file_sessions, clock, opcount, redis_data,
                   redis_index>>

\* _write_index, lines 83-95: the index file is read for the entries of the
\* other users
WriteIndexRead(c) ==
    /\ ops[c].pc = "read_index"
    /\ store_last' = StepOf(c)
    /\ ops' = [ops EXCEPT ![c].pc = "write_index",
                          ![c].all_entries = OtherUsers(file_index, UserOf[c])]
    /\ UNCHANGED <<file_index, file_sessions, clock, opcount, redis_data,
                   redis_index>>

\* _write_index, lines 97-103: the index file is written anew
WriteIndexWrite(c) ==
    /\ ops[c].pc = "write_index"
    /\ store_last' = StepOf(c)
    /\ file_index' = ops[c].all_entries \o ops[c].entries
    /\ ops' = IF ops[c].todo = <<>> THEN [ops EXCEPT ![c] = IdleUserOp]
              ELSE [ops EXCEPT ![c].pc = "unlink"]
    /\ UNCHANGED <<file_sessions, clock, opcount, redis_data, redis_index>>

\* delete_session, lines 314-316: the session file is removed
FileUserUnlink(c) ==
    /\ ops[c].pc = "unlink"
    /\ store_last' = StepOf(c)
    /\ file_sessions' = file_sessions \ {SessionFile(UserOf[c], Head(ops[c].todo))}
    /\ ops' = IF Tail(ops[c].todo) = <<>> THEN [ops EXCEPT ![c] = IdleUserOp]
              ELSE [ops EXCEPT ![c].pc = "delete", ![c].todo = Tail(@)]
    /\ UNCHANGED <<file_index, clock, opcount, redis_data, redis_index>>

\* ZRANGE key 0 -1 of a sorted set of session ids with distinct scores
RECURSIVE ZRangeIds(_, _)
ZRangeIds(zset, S) ==
    IF S = {} THEN <<>>
    ELSE LET m == CHOOSE x \in S : \A y \in S : zset[x] <= zset[y]
         IN  <<m>> \o ZRangeIds(zset, S \ {m})

ZMembers(zset) == { sid \in UserSessionIds : zset[sid] # 0 }

\* the database after delete_session for each id of todo (store.py 225-238)
RECURSIVE RedisUserDeleteEach(_, _, _)
RedisUserDeleteEach(db, user_id, todo) ==
    IF todo = <<>> THEN db
    ELSE LET key == SessionKey(user_id, Head(todo)) IN
         RedisUserDeleteEach(
             IF db[key] = NoEntry THEN db
             ELSE [db EXCEPT ![IndexKey(user_id)] = [@ EXCEPT ![Head(todo)] = 0],
                             ![key] = NoEntry],
             user_id, Tail(todo))

\* SessionStore.create_session, lines 92-113: SET and ZADD
RedisUserCreate(c, sid) ==
    /\ UserCall(c, "redis")
    /\ clock' = clock + 2
    /\ redis_data' =
           [redis_data EXCEPT
               ![SessionKey(UserOf[c], sid)] = Entry(UserOf[c], sid, clock + 1),
               ![IndexKey(UserOf[c])] = [@ EXCEPT ![sid] = clock + 2]]
    /\ UNCHANGED <<ops, file_index, file_sessions, redis_index>>

\* SessionStore.update_session and rename_session, lines 184-208
RedisUserUpdate(c, sid) ==
    LET key == SessionKey(UserOf[c], sid) IN
    /\ UserCall(c, "redis")
    /\ IF redis_data[key] = NoEntry
       THEN UNCHANGED <<redis_data, clock>>
       ELSE /\ clock' = clock + 2
            /\ redis_data' =
                   [redis_data EXCEPT
                       ![key] = [@ EXCEPT !.title = UpdateValues.title,
                                          !.updated_at = clock + 1],
                       ![IndexKey(UserOf[c])] = [@ EXCEPT ![sid] = clock + 2]]
    /\ UNCHANGED <<ops, file_index, file_sessions, redis_index>>

\* SessionStore.delete_session, enforce_session_limit (lines 286-300) and
\* delete_all_sessions (lines 313-318) with the ids they delete
RedisUserDeleteCalls(c, todo) ==
    /\ UserCall(c, "redis")
    /\ redis_data' = RedisUserDeleteEach(redis_data, UserOf[c], todo)
    /\ UNCHANGED <<ops, file_index, file_sessions, clock, redis_index>>

\* the ids that enforce_session_limit deletes: ZCARD, then ZRANGE
RedisOldest(zset, max_sessions) ==
    IF Cardinality(ZMembers(zset)) <= max_sessions THEN <<>>
    ELSE Take(ZRangeIds(zset, ZMembers(zset)),
              Cardinality(ZMembers(zset)) - max_sessions)

\* the ids that list_sessions lists: ZREVRANGE, then the records found
RedisListed(db, user_id) ==
    LET zset == db[IndexKey(user_id)] IN
    SelectSeq(Reverse(ZRangeIds(zset, ZMembers(zset))),
              LAMBDA sid : db[SessionKey(user_id, sid)] # NoEntry)

usersFrame ==
    <<turnVars, lifeVars, connVars, threadVars, manager_last, generator,
      backend, acked, init_store>>

user_stores ==
    \E c \in StoreClients :
        \/ \E sid \in UserSessionIds : FileUserCreate(c, sid) /\ UNCHANGED usersFrame
        \/ \E sid \in UserSessionIds : FileUserUpdate(c, sid) /\ UNCHANGED usersFrame
        \/ \E sid \in UserSessionIds :
               FileUserDeleteCalls(c, "delete_session", <<sid>>)
                   /\ UNCHANGED usersFrame
        \/ \E max_sessions \in Limits :
               FileUserDeleteCalls(c, "enforce_session_limit",
                                   FileOldest(ReadIndex(file_index, UserOf[c]),
                                              max_sessions))
                   /\ UNCHANGED usersFrame
        \/ FileUserDeleteCalls(c, "delete_all_sessions",
                               SessionIdsOf(ReadIndex(file_index, UserOf[c])))
               /\ UNCHANGED usersFrame
        \/ FileUserDeleteRead(c) /\ UNCHANGED usersFrame
        \/ WriteIndexRead(c) /\ UNCHANGED usersFrame
        \/ WriteIndexWrite(c) /\ UNCHANGED usersFrame
        \/ FileUserUnlink(c) /\ UNCHANGED usersFrame
        \/ \E sid \in UserSessionIds : RedisUserCreate(c, sid) /\ UNCHANGED usersFrame
        \/ \E sid \in UserSessionIds : RedisUserUpdate(c, sid) /\ UNCHANGED usersFrame
        \/ \E sid \in UserSessionIds :
               RedisUserDeleteCalls(c, <<sid>>) /\ UNCHANGED usersFrame
        \/ \E max_sessions \in Limits :
               RedisUserDeleteCalls(c, RedisOldest(redis_data[IndexKey(UserOf[c])],
                                                   max_sessions))
                   /\ UNCHANGED usersFrame
        \/ RedisUserDeleteCalls(c, RedisListed(redis_data, UserOf[c]))
               /\ UNCHANGED usersFrame

\* two stores of two users on an empty database or an empty directory
UsersInit ==
    /\ ControllerIdle
    /\ transport = "http"
    /\ server_url = TRUE
    /\ ConnIdle
    /\ backend \in {"redis", "file"}
    /\ redis_data =
           [key \in RedisKeys |->
               IF \E c \in StoreClients : key = IndexKey(UserOf[c])
               THEN [sid \in UserSessionIds |-> 0] ELSE NoEntry]
    /\ redis_index = [sid \in SessionIds |-> 0]
    /\ file_index = <<>>
    /\ file_sessions = {}
    /\ clock = 0
    /\ ops = [c \in StoreClients |-> IdleUserOp]
    /\ store_last = NoLast
    /\ acked = [sid \in SessionIds |-> {}]
    /\ opcount = 0
    /\ init_store = IdleInitStore
    /\ ThreadsIdle
    /\ manager_last = NoManagerCall
    /\ generator = NoGenerator

SpecUsers == UsersInit /\ [][user_stores]_vars

\* ---------------------------------------------------------------------
\* C40: the operations of one user's store leave the sessions of another
\* user unchanged
\* ---------------------------------------------------------------------

\* what get_session, list_sessions, session_exists and get_session_count of
\* store c return
UserView(c) ==
    IF backend = "file"
    THEN LET entries == ReadIndex(file_index, UserOf[c]) IN
         [get |-> [sid \in UserSessionIds |->
                      IF EntryOf(entries, sid, 1) = 0 THEN NoEntry
                      ELSE entries[EntryOf(entries, sid, 1)]],
          list |-> Take(SortDesc(entries), DefaultLimit),
          exists |-> { sid \in UserSessionIds :
                           SessionFile(UserOf[c], sid) \in file_sessions },
          count |-> Len(entries)]
    ELSE [get |-> [sid \in UserSessionIds |->
                      redis_data[SessionKey(UserOf[c], sid)]],
          list |-> RedisListed(redis_data, UserOf[c]),
          exists |-> { sid \in UserSessionIds :
                           redis_data[SessionKey(UserOf[c], sid)] # NoEntry },
          count |-> Cardinality(ZMembers(redis_data[IndexKey(UserOf[c])]))]

\* C40: a step of a call of the store of one user leaves unchanged what
\* get_session, list_sessions, session_exists and get_session_count of the
\* store of the other user return.
C40_OtherUsersUnchanged ==
    [][\A c \in StoreClients :
           store_last' # StepOf(c) => UserView(c)' = UserView(c)]_vars
====
